---------------------------- MODULE Spec2Model ----------------------------
(***************************************************************************)
(* ExtendedModLog event mixin (src/extendedmodlog/eventmixin.py).          *)
(*                                                                         *)
(* The listeners of EventMixin turn a Discord gateway event into at most   *)
(* one notification in the guild's modlog channel: they diff the before    *)
(* and after snapshots, look the change up in the audit log, and send      *)
(* either an embed or a plain-text line.                                   *)
(*                                                                         *)
(* State: the guild's settings table, the bot's permissions, the audit log *)
(* of the guild (per action, newest entry first) and the outcome of the    *)
(* listener invocation under observation.                                  *)
(*                                                                         *)
(* Text is kept as a run-length sequence of pieces [t, n, m]: a run of n   *)
(* characters named t that holds m mass mentions (@everyone / @here).      *)
(***************************************************************************)
EXTENDS Integers, Sequences, FiniteSets, TLC

VARIABLES
    settings,   \* self.settings[guild.id]: event kind -> its options
    me,         \* guild.me: the permissions the bot holds, and API health
    auditLog,   \* guild.audit_logs: action -> entries, newest first
    last,       \* the listener invocation under observation
    guildInvites,   \* guild.invites(): invite code -> the invite as the guild holds it
    config,         \* config.guild(guild).invite_links: the persisted invite table
    invite_links,   \* self.settings[guild.id]["invite_links"]: the table in memory
    delivered,      \* the messages the modlog channel has received, oldest first
    tasks,          \* the coroutines in flight: where each one is, and its locals
    ban_cache,      \* self._ban_cache[guild.id]: the members on_member_ban has seen
    others          \* the other keys of self.settings: guild id -> user_join enabled

\* what the listeners of the update, message and command events never touch
held == <<guildInvites, config, invite_links, delivered, tasks, ban_cache, others>>

vars == <<settings, me, auditLog, last, guildInvites, config, invite_links, delivered, tasks,
          ban_cache, others>>

----------------------------------------------------------------------------
(* Bounds of the model *)

\* entries the audit log holds in the lookup specification
MaxAuditScan == 6
\* attributes one update event changes at once
MaxChanged == 2

----------------------------------------------------------------------------
(* Values *)

None == "None"
Idle == [handler |-> "idle"]

Min(a, b) == IF a < b THEN a ELSE b
Max(a, b) == IF a > b THEN a ELSE b

----------------------------------------------------------------------------
(* Text *)

\* a run of n characters named t; a run that holds m mass mentions starts
\* with them (@everyone, 9 characters each)
P(t, n) == [t |-> t, n |-> n, m |-> 0]
PM(t, n, m) == [t |-> t, n |-> n, m |-> m]

\* a sequence of sequences in a row
RECURSIVE Flatten(_)
Flatten(texts) == IF texts = <<>> THEN <<>> ELSE Head(texts) \o Flatten(Tail(texts))

\* len("@everyone")
MentionLen == 9

RECURSIVE StrLen(_)
StrLen(s) == IF s = <<>> THEN 0 ELSE Head(s).n + StrLen(Tail(s))

\* the first k characters of s (k >= 0)
RECURSIVE Prefix(_, _)
Prefix(s, k) ==
    IF s = <<>> \/ k <= 0 THEN <<>>
    ELSE IF Head(s).n = 0 THEN Prefix(Tail(s), k)
    ELSE IF Head(s).n <= k THEN <<Head(s)>> \o Prefix(Tail(s), k - Head(s).n)
    ELSE <<[t |-> Head(s).t, n |-> k, m |-> Min(Head(s).m, k \div MentionLen)]>>

\* Python's s[:k]: a negative k counts from the end
SliceTo(s, k) == IF k >= 0 THEN Prefix(s, k) ELSE Prefix(s, Max(0, StrLen(s) + k))

\* redbot's escape(text, mass_mentions=True): a zero-width space is put into
\* every @everyone and @here, so each mass mention adds one character
RECURSIVE escape(_)
escape(s) ==
    IF s = <<>> THEN <<>>
    ELSE <<[t |-> Head(s).t, n |-> Head(s).n + Head(s).m, m |-> 0]>> \o escape(Tail(s))

\* the characters of s after the first k
RECURSIVE Drop(_, _)
Drop(s, k) ==
    IF s = <<>> THEN <<>>
    ELSE IF k <= 0 THEN s
    ELSE IF Head(s).n <= k THEN Drop(Tail(s), k - Head(s).n)
    ELSE <<[t |-> Head(s).t, n |-> Head(s).n - k,
            m |-> Head(s).m - Min(Head(s).m, k \div MentionLen)]>> \o Tail(s)

RECURSIVE Mentions(_)
Mentions(s) == IF s = <<>> THEN 0 ELSE Head(s).m + Mentions(Tail(s))

\* the 0-based positions of the line ends of s, s starting at position off
RECURSIVE LineEnds(_, _)
LineEnds(s, off) ==
    IF s = <<>> THEN {}
    ELSE (IF Head(s).t = "\n" THEN off..(off + Head(s).n - 1) ELSE {})
         \cup LineEnds(Tail(s), off + Head(s).n)

\* Python's s.rfind("\n", lo, hi)
RFindNL(s, lo, hi) ==
    LET at == {i \in LineEnds(s, 0) : lo <= i /\ i < hi}
    IN IF at = {} THEN -1 ELSE CHOOSE i \in at : \A j \in at : j <= i

\* len(s.strip()) = 0
RECURSIVE Blank(_)
Blank(s) == s = <<>> \/ (Head(s).t \in {"\n", " "} /\ Blank(Tail(s)))

\* redbot's pagify(text, page_length=...): the text is cut at the last line
\* end before the page length (less shorten_by = 8 and the mass mentions to
\* escape), every page is escaped, blank pages are dropped
ShortenBy == 8

RECURSIVE Pages(_, _)
Pages(in_text, page_length) ==
    IF StrLen(in_text) > page_length
    THEN LET this_page_len == page_length - Mentions(Prefix(in_text, page_length))
             found == RFindNL(in_text, 1, this_page_len)
             closest_delim == IF found = -1 THEN this_page_len ELSE found
             to_send == escape(Prefix(in_text, closest_delim))
         IN (IF Blank(to_send) THEN <<>> ELSE <<to_send>>)
            \o Pages(Drop(in_text, closest_delim), page_length)
    ELSE IF Blank(in_text) THEN <<>> ELSE <<escape(in_text)>>

pagify(text, page_length) == Pages(text, page_length - ShortenBy)

\* s starts with p, character for character
RECURSIVE StartsWith(_, _)
StartsWith(s, p) ==
    IF p = <<>> THEN TRUE
    ELSE IF s = <<>> THEN FALSE
    ELSE IF Head(p).t # Head(s).t THEN FALSE
    ELSE IF Head(p).n = Head(s).n THEN StartsWith(Tail(s), Tail(p))
    ELSE Head(p).n < Head(s).n /\ Tail(p) = <<>>

----------------------------------------------------------------------------
(* Settings and permissions *)

EventKinds == {"channel_change", "channel_create", "role_change", "guild_change",
               "emoji_change", "voice_change", "user_change", "message_edit",
               "message_delete", "commands_used", "user_join", "user_left",
               "invite_created"}

\* settings[guild.id][event]: the options the listeners read
Privs == {"MOD", "ADMIN", "BOT_OWNER", "GUILD_OWNER"}
DefaultOptions == [enabled |-> TRUE, embed |-> TRUE, nicknames |-> TRUE, bots |-> FALSE,
                   privs |-> Privs, cached_only |-> FALSE, colour |-> None, channel |-> None,
                   bulk_enabled |-> TRUE, bulk_individual |-> TRUE]

\* the settings table with the guild in it and the same options for every event
AllEvents(o) == [present |-> TRUE, modlog |-> TRUE, events |-> [k \in EventKinds |-> o]]

\* guild.me: the bot may read the audit log, embed links and send messages in
\* the modlog channel; api_error: the audit log endpoint answers with an error
Healthy == [view_audit_log |-> TRUE, embed_links |-> TRUE, send_messages |-> TRUE,
            api_error |-> FALSE, manage_guild |-> TRUE]

\* guild.get_channel(id): None for a channel that is no longer in the guild
GoneChannel == "gone"
get_channel(id) == IF id = GoneChannel THEN None ELSE id

\* the channel modlog_channel settles on before it looks at the permissions:
\* the event's own channel, else modlog.get_modlog_channel(guild), else None
\* (RuntimeError("No Modlog set"))
Destination(event) ==
    LET own == settings.events[event].channel
        channel == IF own # None THEN get_channel(own) ELSE None
    IN IF channel # None THEN channel
       ELSE IF settings.modlog THEN "modlog" ELSE None

\* modlog_channel without its look at send_messages
modlog_channel_unchecked(event) == Destination(event) # None

\* modlog_channel(guild, event): TRUE when a channel is returned, FALSE when
\* RuntimeError is raised (no modlog channel set, or no permission to send)
modlog_channel(event) == Destination(event) # None /\ me.send_messages

\* the gate without the test of the event's enabled flag
GateUnlessAbsent(event) ==
    /\ settings.present
    /\ modlog_channel(event)

\* the gate every listener starts with: the guild is in the settings table,
\* the event is enabled and a channel to send to is found
Gate(event) ==
    /\ settings.present
    /\ settings.events[event].enabled
    /\ modlog_channel(event)

\* embed_links of the listeners: the permission and the event's embed option
EmbedLinks(event) == me.embed_links /\ settings.events[event].embed

\* defaults[event_type] of get_event_colour; no caller passes changed_object
DefaultColour(event) ==
    CASE event = "message_edit" -> "orange"
      [] event = "message_delete" -> "dark_red"
      [] event = "user_change" -> "greyple"
      [] event = "role_change" -> "blue"
      [] event = "voice_change" -> "magenta"
      [] event \in {"channel_change", "channel_create"} -> "teal"
      [] event = "guild_change" -> "blurple"
      [] event = "emoji_change" -> "gold"
      [] event = "commands_used" -> "cmd_colour"
      [] event = "user_join" -> "green"
      [] event = "user_left" -> "dark_green"
      [] event = "invite_created" -> "blurple"

\* get_event_colour(guild, event_type)
get_event_colour(event) ==
    IF settings.events[event].colour # None THEN settings.events[event].colour
    ELSE DefaultColour(event)

\* datetime.datetime.utcnow() as a listener may read it, and the time an event
\* carries itself (message.created_at)
Times == {"now 1", "now 2"}
CreatedAt == "created_at"

----------------------------------------------------------------------------
(* The audit log *)

\* src/extendedmodlog/eventmixin.py:965 (limit=5)
AuditLimit == 5

Actions == {"channel_create", "channel_update", "overwrite_update", "overwrite_delete",
            "role_update", "member_update", "member_role_update", "guild_update",
            "emoji_create", "emoji_delete", "emoji_update", "kick", "message_delete"}

\* ids of the entity an event is about, and of another entity of its kind
TargetId == "t1"
OtherId == "t2"
Ids == {TargetId, OtherId}

NoReason == ""
Reasons == {NoReason, "because"}

TotalEntries == LET RECURSIVE Sum(_)
                    Sum(S) == IF S = {} THEN 0
                              ELSE LET a == CHOOSE a \in S : TRUE
                                   IN Len(auditLog[a]) + Sum(S \ {a})
                IN Sum(Actions)

\* guild.audit_logs(limit=limit, action=action): the newest `limit` entries
\* of that action, newest first
audit_logs(limit, action) == SubSeq(auditLog[action], 1, Min(limit, Len(auditLog[action])))

\* the async for ... break loop of get_audit_log_reason: the first entry of
\* logs whose target is target_id
FirstMatchBroken(logs, target_id) ==
    LET hits == {i \in 1..Len(logs) : logs[i].target = target_id}
    IN IF hits = {} THEN 0 ELSE CHOOSE i \in hits : \A j \in hits : j <= i

FirstMatch(logs, target_id) ==
    LET hits == {i \in 1..Len(logs) : logs[i].target = target_id}
    IN IF hits = {} THEN 0 ELSE CHOOSE i \in hits : \A j \in hits : i <= j

\* get_audit_log_reason without the test of the permission
get_audit_log_reason_unchecked(target_id, action) ==
    IF me.api_error
    THEN [perp |-> None, reason |-> None,
          queries |-> <<[action |-> action, limit |-> AuditLimit]>>, raised |-> TRUE]
    ELSE LET logs == audit_logs(AuditLimit, action)
             i == FirstMatch(logs, target_id)
         IN [perp |-> IF i = 0 THEN None ELSE logs[i].user,
             reason |-> IF i = 0 \/ logs[i].reason = NoReason THEN None ELSE logs[i].reason,
             queries |-> <<[action |-> action, limit |-> AuditLimit]>>, raised |-> FALSE]

\* get_audit_log_reason(guild, target, action): perp, reason, the queries it
\* made and whether the query raised (nothing catches it)
get_audit_log_reason(target_id, action) ==
    IF ~me.view_audit_log
    THEN [perp |-> None, reason |-> None, queries |-> <<>>, raised |-> FALSE]
    ELSE IF me.api_error
    THEN [perp |-> None, reason |-> None,
          queries |-> <<[action |-> action, limit |-> AuditLimit]>>, raised |-> TRUE]
    ELSE LET logs == audit_logs(AuditLimit, action)
             i == FirstMatch(logs, target_id)
         IN [perp |-> IF i = 0 THEN None ELSE logs[i].user,
             reason |-> IF i = 0 \/ logs[i].reason = NoReason THEN None ELSE logs[i].reason,
             queries |-> <<[action |-> action, limit |-> AuditLimit]>>,
             raised |-> FALSE]

\* a moderator's action is recorded: the entry goes to the head of the log.
\* Each entry of an action's log names another moderator.
\* log.extra.channel.id of the message_delete entries
ExtraChannel == "c1"

AuditRecord(action, target, reason, after) ==
    /\ last = Idle
    /\ TotalEntries < MaxAuditScan
    /\ auditLog' = [auditLog EXCEPT ![action] =
           <<[target |-> target, user |-> "u" \o ToString(Len(auditLog[action]) + 1),
              reason |-> reason, after |-> after, extra |-> ExtraChannel]>> \o @]
    /\ UNCHANGED <<settings, me, last>>
    /\ UNCHANGED held

\* an entry whose recorded after-state holds nothing
NoAfter == <<>>

----------------------------------------------------------------------------
(* Pieces of text the listeners put together *)

\* a literal of the source without its line ends; n is its length
Lit(t, n) == <<P(t, n)>>
\* "\n"
NL == <<P("\n", 1)>>

\* clock = "<t:{epoch}:F>", set once when the module is imported
Clock == Lit("<t:epoch:F>", 16)
\* settings[guild.id][event]["emoji"]
Emoji == Lit("emoji", 1)

\* str(user) is name#discriminator, user.name the name, user.mention <@id>
UserStr(u) == Lit("str:" \o u, 10)
UserName(u) == Lit("name:" \o u, 5)
UserMention(u) == Lit("mention:" \o u, 21)
Mention(id) == Lit("mention:" \o id, 21)
\* a reason as long as the audit log lets one be
LongReason == "long reason"
ReasonLen(r) == IF r = LongReason THEN 512 ELSE 7
ReasonText(r) == Lit("reason:" \o r, ReasonLen(r))

\* the lookups a listener makes one after the other: nothing is asked without
\* the permission, and the first one raises when the endpoint fails
Lookups(target_id, actions) ==
    IF actions = <<>> \/ ~me.view_audit_log
    THEN [queries |-> <<>>, raised |-> FALSE]
    ELSE IF me.api_error
    THEN [queries |-> get_audit_log_reason(target_id, actions[1]).queries, raised |-> TRUE]
    ELSE [queries |-> [i \in 1..Len(actions) |->
                          get_audit_log_reason(target_id, actions[i]).queries[1]],
          raised |-> FALSE]

----------------------------------------------------------------------------
(* get_permission_change *)

\* the subjects of permission overwrites, in the order the dicts hold them
Subjects == <<"r1", "m1">>
PermNames == <<"read_messages", "send_messages">>
PermLen(p) == 13
ValueLen(v) == IF v = "True" THEN 4 ELSE IF v = "False" THEN 5 ELSE 4

\* entity_obj.mention if embed_links else entity_obj.name
SubjectName(o, embed_links) ==
    IF embed_links THEN Lit("mention:" \o o, 22) ELSE Lit("name:" \o o, 4)
PerpName(u, embed_links) == IF embed_links THEN UserMention(u) ELSE UserName(u)

\* what get_permission_change does for the i-th subject of before.overwrites
BeforeCase(b, a, i) ==
    IF Subjects[i] \notin DOMAIN b THEN "skip"
    ELSE IF Subjects[i] \notin DOMAIN a THEN "removed"
    ELSE IF a[Subjects[i]] # b[Subjects[i]] THEN "changed"
    ELSE "same"

\* and for the i-th subject of after.overwrites
AfterCase(b, a, i) ==
    IF Subjects[i] \in DOMAIN a /\ Subjects[i] \notin DOMAIN b THEN "added" ELSE "skip"

\* a line for every permission of a changed subject, differing or not
PermLineEvery(case, o, name, p, b, a) ==
    IF case = "removed"
    THEN IF b[o][p] = None THEN <<>>
         ELSE name \o Lit(" ", 1) \o Lit(p, PermLen(p)) \o Lit(" Reset.", 7) \o NL
    ELSE IF case = "changed"
    THEN name \o Lit(" ", 1) \o Lit(p, PermLen(p)) \o Lit(" Set to ", 8)
         \o Lit(a[o][p], ValueLen(a[o][p])) \o Lit(".", 1) \o NL
    ELSE IF a[o][p] = None THEN <<>>
         ELSE name \o Lit(" ", 1) \o Lit(p, PermLen(p)) \o Lit(" Set to ", 8)
              \o Lit(a[o][p], ValueLen(a[o][p])) \o Lit(".", 1) \o NL

\* the lines written for one permission of a subject
PermLine(case, o, name, p, b, a) ==
    IF case = "removed"
    THEN IF b[o][p] = None THEN <<>>
         ELSE name \o Lit(" ", 1) \o Lit(p, PermLen(p)) \o Lit(" Reset.", 7) \o NL
    ELSE IF case = "changed"
    THEN IF a[o][p] = b[o][p] THEN <<>>
         ELSE name \o Lit(" ", 1) \o Lit(p, PermLen(p)) \o Lit(" Set to ", 8)
              \o Lit(a[o][p], ValueLen(a[o][p])) \o Lit(".", 1) \o NL
    ELSE IF a[o][p] = None THEN <<>>
         ELSE name \o Lit(" ", 1) \o Lit(p, PermLen(p)) \o Lit(" Set to ", 8)
              \o Lit(a[o][p], ValueLen(a[o][p])) \o Lit(".", 1) \o NL

RECURSIVE PermLines(_, _, _, _, _, _)
PermLines(case, o, name, b, a, k) ==
    IF k > Len(PermNames) THEN <<>>
    ELSE PermLine(case, o, name, PermNames[k], b, a) \o PermLines(case, o, name, b, a, k + 1)

\* the audit action looked up for a case
CaseAction(case) == IF case = "removed" THEN "overwrite_delete" ELSE "overwrite_update"

\* the text written for one subject
SubjectLines(case, o, chan_id, embed_links, b, a) ==
    IF case \in {"skip", "same"} THEN <<>>
    ELSE LET got == get_audit_log_reason(chan_id, CaseAction(case))
             name == SubjectName(o, embed_links)
             by == IF got.perp = None THEN <<>>
                   ELSE PerpName(got.perp, embed_links)
                        \o (IF case = "removed" THEN Lit(" Removed overwrites.", 20) \o NL
                            ELSE IF case = "changed" THEN Lit(" Updated overwrites.", 20) \o NL
                            ELSE Lit(" Added overwrites.", 18) \o NL)
             head == IF case = "removed" THEN name \o Lit(" Overwrites removed.", 20) \o NL
                     ELSE IF case = "added" THEN name \o Lit(" Overwrites added.", 18) \o NL
                     ELSE <<>>
         IN by \o head \o PermLines(case, o, name, b, a, 1)

RECURSIVE BeforeLoop(_, _, _, _, _)
BeforeLoop(b, a, chan_id, embed_links, i) ==
    IF i > Len(Subjects) THEN <<>>
    ELSE SubjectLines(BeforeCase(b, a, i), Subjects[i], chan_id, embed_links, b, a)
         \o BeforeLoop(b, a, chan_id, embed_links, i + 1)

RECURSIVE AfterLoop(_, _, _, _, _)
AfterLoop(b, a, chan_id, embed_links, i) ==
    IF i > Len(Subjects) THEN <<>>
    ELSE SubjectLines(AfterCase(b, a, i), Subjects[i], chan_id, embed_links, b, a)
         \o AfterLoop(b, a, chan_id, embed_links, i + 1)

\* the audit actions get_permission_change looks up, in order
RECURSIVE BeforeActions(_, _, _)
BeforeActions(b, a, i) ==
    IF i > Len(Subjects) THEN <<>>
    ELSE (IF BeforeCase(b, a, i) \in {"removed", "changed"}
          THEN <<CaseAction(BeforeCase(b, a, i))>> ELSE <<>>)
         \o BeforeActions(b, a, i + 1)

RECURSIVE AfterActions(_, _, _)
AfterActions(b, a, i) ==
    IF i > Len(Subjects) THEN <<>>
    ELSE (IF AfterCase(b, a, i) = "added" THEN <<"overwrite_update">> ELSE <<>>)
         \o AfterActions(b, a, i + 1)

\* get_permission_change(before, after, embed_links): p_msg, the lookups made
\* and whether one of them raised
get_permission_change(b, a, chan_id, embed_links) ==
    LET looked == Lookups(chan_id, BeforeActions(b, a, 1) \o AfterActions(b, a, 1))
    IN [p_msg |-> IF looked.raised THEN <<>>
                  ELSE BeforeLoop(b, a, chan_id, embed_links, 1)
                       \o AfterLoop(b, a, chan_id, embed_links, 1),
        queries |-> looked.queries,
        raised |-> looked.raised]

----------------------------------------------------------------------------
(* Notifications *)

NoEmbed == [description |-> <<>>, fields |-> <<>>, author |-> None, colour |-> None,
            timestamp |-> None]

\* channel.send(text) and channel.send(embed=embed)
SendText(text) == [mode |-> "text", text |-> text, embed |-> NoEmbed]
SendEmbed(embed) == [mode |-> "embed", text |-> <<>>, embed |-> embed]

Field(name, value) == [name |-> name, value |-> value]

\* the fields one page each of pagify(p_msg, page_length=1024) goes into
PageFields(name, pages) == [i \in 1..Len(pages) |-> Field(name, pages[i])]

\* the listener returned at its gate: nothing looked up, nothing sent
Gated(handler, event, before, after) ==
    [handler |-> handler, event |-> event, before |-> before, after |-> after,
     embed_links |-> FALSE, changed |-> {}, worth |-> FALSE,
     perp |-> None, reason |-> None, queries |-> <<>>, raised |-> FALSE,
     rendered |-> <<>>, sent |-> <<>>]

\* the outcome of a listener that went past its gate: an exception of a lookup
\* leaves the listener before it sends; without one it sends when the change
\* is worth it
Outcome(handler, event, before, after, changed, worth, perp, reason, looked, msg, note) ==
    [handler |-> handler, event |-> event, before |-> before, after |-> after,
     embed_links |-> EmbedLinks(event), changed |-> changed,
     worth |-> worth,
     perp |-> IF looked.raised THEN None ELSE perp,
     reason |-> IF looked.raised THEN None ELSE reason,
     queries |-> looked.queries, raised |-> looked.raised,
     rendered |-> IF looked.raised THEN <<>> ELSE msg,
     sent |-> IF looked.raised \/ ~worth THEN <<>> ELSE <<note>>]

\* both lookups in a row
Both(l1, l2) ==
    IF l1.raised THEN l1
    ELSE [queries |-> l1.queries \o l2.queries, raised |-> l2.raised]

----------------------------------------------------------------------------
(* on_guild_channel_update *)

\* the channel the event is about
ChannelId == TargetId

NoOverwrites == <<>>
ModsOnly == [o \in {"r1"} |-> [p \in {"read_messages", "send_messages"} |->
                 IF p = "read_messages" THEN "True" ELSE None]]
ModsDenied == [o \in {"r1"} |-> [p \in {"read_messages", "send_messages"} |->
                 IF p = "read_messages" THEN "False" ELSE None]]
ModsAndAlice == [o \in {"r1", "m1"} |-> [p \in {"read_messages", "send_messages"} |->
                 IF o = "r1" THEN (IF p = "read_messages" THEN "True" ELSE None)
                 ELSE "True"]]
OverwriteChoices == {ModsOnly, NoOverwrites, ModsDenied, ModsAndAlice}

\* a text channel before the event, and the values its attributes may take
TextBefore ==
    [name |-> P("general", 7), topic |-> P("topic A", 1024),
     category |-> P("Text Channels", 13), slowmode_delay |-> P("0", 1),
     nsfw |-> "False", overwrites |-> ModsOnly, position |-> 0]
TextValues ==
    [name : {P("general", 7), P("general-chat", 12)},
     topic : {P("topic A", 1024), PM("topic B", 1024, 1), P("", 0)},
     category : {P("Text Channels", 13), P("Archive", 7)},
     slowmode_delay : {P("0", 1), P("21600", 5)},
     nsfw : {"False", "True"},
     overwrites : OverwriteChoices,
     position : {0, 1}]

\* a voice channel before the event, and the values its attributes may take
VoiceBefore ==
    [name |-> P("General", 7), position |-> P("0", 1),
     category |-> P("Voice Channels", 14), bitrate |-> P("64000", 5),
     user_limit |-> P("0", 1), overwrites |-> ModsOnly, rtc_region |-> "None"]
VoiceValues ==
    [name : {P("General", 7), P("Music", 5)},
     position : {P("0", 1), P("1", 1)},
     category : {P("Voice Channels", 14), P("Archive", 7)},
     bitrate : {P("64000", 5), P("96000", 5)},
     user_limit : {P("0", 1), P("10", 2)},
     overwrites : OverwriteChoices,
     rtc_region : {"None", "europe"}]

\* the attributes in which two snapshots differ
Differing(b, a) == {x \in DOMAIN b : b[x] # a[x]}
\* the snapshots an event may bring after b
Afters(b, values) == {a \in values : Cardinality(Differing(b, a)) <= MaxChanged}

\* text_updates and voice_updates, in the order the dicts hold them
text_updates == <<"name", "topic", "category", "slowmode_delay">>
voice_updates == <<"name", "position", "category", "bitrate", "user_limit">>

Label(attr) ==
    CASE attr = "name" -> "Name:"
      [] attr = "topic" -> "Topic:"
      [] attr = "category" -> "Category:"
      [] attr = "slowmode_delay" -> "Slowmode delay:"
      [] attr = "position" -> "Position:"
      [] attr = "bitrate" -> "Bitrate:"
      [] attr = "user_limit" -> "User limit:"
LabelLen(attr) ==
    CASE attr = "name" -> 5
      [] attr = "topic" -> 6
      [] attr = "category" -> 9
      [] attr = "slowmode_delay" -> 15
      [] attr = "position" -> 9
      [] attr = "bitrate" -> 8
      [] attr = "user_limit" -> 11

\* if before_attr == "": before_attr = "None" (text channels only)
Shown(v, none_if_empty) == IF none_if_empty /\ v.n = 0 THEN Lit("None", 4) ELSE <<v>>

\* the attributes of updates the loop finds changed, in order
ChangedOf(updates, b, a) == SelectSeq(updates, LAMBDA x : b[x] # a[x])

\* msg += "Before " + f"{name} {before_attr}\n"; msg += "After " + ...
RECURSIVE AttrLines(_, _, _, _)
AttrLines(attrs, b, a, none_if_empty) ==
    IF attrs = <<>> THEN <<>>
    ELSE LET x == Head(attrs)
         IN Lit("Before ", 7) \o Lit(Label(x), LabelLen(x)) \o Lit(" ", 1)
            \o Shown(b[x], none_if_empty) \o NL
            \o Lit("After ", 6) \o Lit(Label(x), LabelLen(x)) \o Lit(" ", 1)
            \o Shown(a[x], none_if_empty) \o NL
            \o AttrLines(Tail(attrs), b, a, none_if_empty)

\* embed.add_field(name="Before " + name, value=str(before_attr)[:limit]), and
\* the same for after; limit 0 stands for no cut
FieldLimit == 1024
Cut(s, limit) == IF limit = 0 THEN s ELSE SliceTo(s, limit)

RECURSIVE AttrFields(_, _, _, _, _)
AttrFields(attrs, b, a, none_if_empty, limit) ==
    IF attrs = <<>> THEN <<>>
    ELSE LET x == Head(attrs)
         IN <<Field("Before " \o Label(x), Cut(Shown(b[x], none_if_empty), limit)),
              Field("After " \o Label(x), Cut(Shown(a[x], none_if_empty), limit))>>
            \o AttrFields(Tail(attrs), b, a, none_if_empty, limit)

\* worth_updating of on_guild_channel_update
ChannelWorthAlways(chtype, b, a, p_msg) == TRUE

ChannelWorth(chtype, b, a, p_msg) ==
    \/ chtype = "text" /\ ChangedOf(text_updates, b, a) # <<>>
    \/ chtype = "text" /\ b.nsfw # a.nsfw
    \/ chtype = "voice" /\ ChangedOf(voice_updates, b, a) # <<>>
    \/ chtype \in {"text", "voice"} /\ p_msg # <<>>

on_guild_channel_update(chtype, b, a, time) ==
    IF ~Gate("channel_change") THEN Gated("on_guild_channel_update", "channel_change", b, a)
    ELSE
    LET embed_links == EmbedLinks("channel_change")
        attrs == IF chtype = "text" THEN ChangedOf(text_updates, b, a)
                 ELSE IF chtype = "voice" THEN ChangedOf(voice_updates, b, a)
                 ELSE <<>>
        nsfw == chtype = "text" /\ b.nsfw # a.nsfw
        \* one lookup for every changed attribute of a text channel
        n_lookups == IF chtype = "text" THEN Len(attrs) + (IF nsfw THEN 1 ELSE 0) ELSE 0
        attr_looked == Lookups(ChannelId, [i \in 1..n_lookups |-> "channel_update"])
        got == get_audit_log_reason(ChannelId, "channel_update")
        perp == IF n_lookups = 0 THEN None ELSE got.perp
        reason == IF n_lookups = 0 THEN None ELSE got.reason
        pc == IF chtype \in {"text", "voice"} /\ ~attr_looked.raised
              THEN get_permission_change(b.overwrites, a.overwrites, ChannelId, embed_links)
              ELSE [p_msg |-> <<>>, queries |-> <<>>, raised |-> FALSE]
        looked == Both(attr_looked, pc)
        worth_updating == ChannelWorth(chtype, b, a, pc.p_msg)
        nsfw_lines == IF nsfw
                      THEN Lit("Before ", 7) \o Lit("NSFW ", 5) \o Lit(b.nsfw, ValueLen(b.nsfw)) \o NL
                           \o Lit("After ", 6) \o Lit("NSFW ", 5) \o Lit(a.nsfw, ValueLen(a.nsfw)) \o NL
                      ELSE <<>>
        nsfw_fields == IF nsfw
                       THEN <<Field("Before NSFW", Lit(b.nsfw, ValueLen(b.nsfw))),
                              Field("After NSFW", Lit(a.nsfw, ValueLen(a.nsfw)))>>
                       ELSE <<>>
        msg == Clock \o Lit(" ", 1) \o Emoji \o Lit(" Updated channel ", 17) \o <<b.name>> \o NL
               \o AttrLines(attrs, b, a, chtype = "text")
               \o nsfw_lines
               \o (IF pc.p_msg # <<>> THEN Lit("Permissions Changed: ", 21) \o pc.p_msg ELSE <<>>)
               \o (IF perp # None THEN Lit("Updated by ", 11) \o UserStr(perp) \o NL ELSE <<>>)
               \o (IF reason # None THEN Lit("Reason ", 7) \o ReasonText(reason) \o NL ELSE <<>>)
        embed == [description |-> Mention(ChannelId),
                  author |-> perp,
                  colour |-> get_event_colour("channel_change"),
                  timestamp |-> time,
                  fields |-> AttrFields(attrs, b, a, chtype = "text",
                                        IF chtype = "text" THEN FieldLimit ELSE 0)
                             \o nsfw_fields
                             \o PageFields("Permissions", pagify(pc.p_msg, FieldLimit))
                             \o (IF reason # None THEN <<Field("Reason ", ReasonText(reason))>>
                                 ELSE <<>>)
                             \o <<Field("ID", Lit("fence:asciidoc", 11) \o NL
                                         \o Lit("Channel :: ", 11) \o Lit("id:modlog", 18) \o NL
                                         \o (IF perp # None
                                             THEN Lit("User :: ", 8) \o Lit("id:" \o perp, 18)
                                             ELSE <<>>)
                                         \o Lit("fence", 3))>>]
    IN Outcome("on_guild_channel_update", "channel_change", b, a,
               Differing(b, a), worth_updating, perp, reason, looked, msg,
               IF embed_links THEN SendEmbed(embed) ELSE SendText(escape(msg)))

OnGuildChannelUpdate ==
    /\ last = Idle
    /\ \/ \E a \in Afters(TextBefore, TextValues), time \in Times :
            last' = on_guild_channel_update("text", TextBefore, a, time) @@ ("chtype" :> "text")
       \/ \E chtype \in {"voice", "category"}, a \in Afters(VoiceBefore, VoiceValues),
               time \in Times :
            last' = on_guild_channel_update(chtype, VoiceBefore, a, time) @@ ("chtype" :> chtype)
    /\ UNCHANGED <<settings, me, auditLog>>
    /\ UNCHANGED held

----------------------------------------------------------------------------
(* on_guild_role_update *)

RoleId == TargetId
\* the flags of discord.Permissions: two by name, and "rest" for the 31 other
\* flags of the library taken together, whose names are 436 characters in all
RolePerms == <<"kick_members", "ban_members", "rest">>
RolePermLen(p) == IF p = "kick_members" THEN 12 ELSE 11
OtherFlags == 31
OtherNames == 436

RoleBefore ==
    [name |-> P("Mods", 4), color |-> P("#1abc9c", 7), mentionable |-> P("False", 5),
     hoist |-> P("False", 5),
     permissions |-> [p \in {"kick_members", "ban_members", "rest"} |->
                         IF p = "rest" THEN "True" ELSE "False"],
     position |-> 1]
RoleValues ==
    [name : {P("Mods", 4), P("", 0), P("Moderators", 10)},
     color : {P("#1abc9c", 7), P("#e74c3c", 7)},
     mentionable : {P("False", 5), P("True", 4)},
     hoist : {P("False", 5), P("True", 4)},
     permissions : [{"kick_members", "ban_members", "rest"} -> {"False", "True"}],
     position : {1, 2}]

\* role_updates, in the order the dict holds them
role_updates == <<"name", "color", "mentionable", "hoist">>
RoleLabel(attr) ==
    CASE attr = "name" -> "Name:"
      [] attr = "color" -> "Colour:"
      [] attr = "mentionable" -> "Mentionable:"
      [] attr = "hoist" -> "Is Hoisted:"
RoleLabelLen(attr) ==
    CASE attr = "name" -> 5
      [] attr = "color" -> 7
      [] attr = "mentionable" -> 12
      [] attr = "hoist" -> 11

RECURSIVE RoleLines(_, _, _)
RoleLines(attrs, b, a) ==
    IF attrs = <<>> THEN <<>>
    ELSE LET x == Head(attrs)
         IN Lit("Before ", 7) \o Lit(RoleLabel(x), RoleLabelLen(x)) \o Lit(" ", 1)
            \o Shown(b[x], TRUE) \o NL
            \o Lit("After ", 6) \o Lit(RoleLabel(x), RoleLabelLen(x)) \o Lit(" ", 1)
            \o Shown(a[x], TRUE) \o NL
            \o RoleLines(Tail(attrs), b, a)

RECURSIVE RoleFields(_, _, _)
RoleFields(attrs, b, a) ==
    IF attrs = <<>> THEN <<>>
    ELSE LET x == Head(attrs)
         IN <<Field("Before " \o RoleLabel(x), Shown(b[x], TRUE)),
              Field("After " \o RoleLabel(x), Shown(a[x], TRUE))>>
            \o RoleFields(Tail(attrs), b, a)

\* get_role_permission_change(before, after): one line for every permission
\* whose value in after differs from before
RECURSIVE get_role_permission_change(_, _, _)
get_role_permission_change(b, a, k) ==
    IF k > Len(RolePerms) THEN <<>>
    ELSE LET p == RolePerms[k]
         IN (IF a.permissions[p] # b.permissions[p]
             THEN (IF p = "rest"
                   THEN <<P("lines:rest", OtherNames
                              + OtherFlags * (10 + ValueLen(a.permissions[p]) + 2 + 1))>>
                   ELSE Lit(p, RolePermLen(p)) \o Lit(" Set to **", 10)
                        \o Lit(a.permissions[p], ValueLen(a.permissions[p])) \o Lit("**", 2)
                        \o NL)
             ELSE <<>>)
            \o get_role_permission_change(b, a, k + 1)

\* worth_updating of on_guild_role_update
RoleWorthAny(b, a, p_msg) == b # a

RoleWorth(b, a, p_msg) == ChangedOf(role_updates, b, a) # <<>> \/ p_msg # <<>>

on_guild_role_update(b, a, time) ==
    IF ~Gate("role_change") THEN Gated("on_guild_role_update", "role_change", b, a)
    ELSE
    LET embed_links == EmbedLinks("role_change")
        \* looked up before the snapshots are compared
        looked == Lookups(RoleId, <<"role_update">>)
        got == get_audit_log_reason(RoleId, "role_update")
        attrs == ChangedOf(role_updates, b, a)
        p_msg == get_role_permission_change(b, a, 1)
        msg == Clock \o Lit(" ", 1) \o Emoji \o Lit(" Updated role **", 16) \o <<b.name>>
               \o Lit("**", 2) \o NL
               \o (IF got.perp # None THEN Lit("Updated by ", 11) \o UserStr(got.perp) \o NL
                   ELSE <<>>)
               \o (IF got.reason # None THEN Lit("Reason ", 7) \o ReasonText(got.reason) \o NL
                   ELSE <<>>)
               \o RoleLines(attrs, b, a)
               \o (IF p_msg # <<>> THEN Lit("Permissions Changed: ", 21) \o p_msg ELSE <<>>)
        embed == [description |-> Mention(RoleId),
                  author |-> None,
                  colour |-> a.color.t,
                  timestamp |-> time,
                  fields |-> (IF got.perp # None
                              THEN <<Field("Updated by ", UserMention(got.perp))>> ELSE <<>>)
                             \o (IF got.reason # None
                                 THEN <<Field("Reason ", ReasonText(got.reason))>> ELSE <<>>)
                             \o RoleFields(attrs, b, a)
                             \o (IF p_msg # <<>>
                                 THEN <<Field("Permissions", SliceTo(p_msg, FieldLimit))>>
                                 ELSE <<>>)]
    IN Outcome("on_guild_role_update", "role_change", b, a,
               Differing(b, a), RoleWorth(b, a, p_msg), got.perp, got.reason, looked, msg,
               IF embed_links THEN SendEmbed(embed) ELSE SendText(msg))

OnGuildRoleUpdate ==
    /\ last = Idle
    /\ \E a \in Afters(RoleBefore, RoleValues), time \in Times :
         last' = on_guild_role_update(RoleBefore, a, time)
    /\ UNCHANGED <<settings, me, auditLog>>
    /\ UNCHANGED held

----------------------------------------------------------------------------
(* on_guild_update *)

GuildBefore ==
    [name |-> P("Guild", 5), region |-> P("europe", 6), afk_timeout |-> P("300", 3),
     afk_channel |-> P("AFK", 3), icon_url |-> P("icon A", 80), owner |-> P("owner#0001", 10),
     splash |-> P("None", 4), system_channel |-> P("welcome", 7),
     verification_level |-> P("low", 3), description |-> "a guild"]
GuildValues ==
    [name : {P("Guild", 5), P("Guild 2", 7)},
     region : {P("europe", 6), P("us-east", 7)},
     afk_timeout : {P("300", 3), P("900", 3)},
     afk_channel : {P("AFK", 3), P("None", 4)},
     icon_url : {P("icon A", 80), P("icon B", 80)},
     owner : {P("owner#0001", 10), P("other#0002", 10)},
     splash : {P("None", 4), P("splash", 32)},
     system_channel : {P("welcome", 7), P("general", 7)},
     verification_level : {P("low", 3), P("high", 4)},
     description : {"a guild", "another text"}]

\* guild_updates, in the order the dict holds them
guild_updates == <<"name", "region", "afk_timeout", "afk_channel", "icon_url", "owner",
                   "splash", "system_channel", "verification_level">>
GuildLabel(attr) ==
    CASE attr = "name" -> "Name:"
      [] attr = "region" -> "Region:"
      [] attr = "afk_timeout" -> "AFK Timeout:"
      [] attr = "afk_channel" -> "AFK Channel:"
      [] attr = "icon_url" -> "Server Icon:"
      [] attr = "owner" -> "Server Owner:"
      [] attr = "splash" -> "Splash Image:"
      [] attr = "system_channel" -> "Welcome message channel:"
      [] attr = "verification_level" -> "Verification Level:"
GuildLabelLen(attr) ==
    CASE attr = "name" -> 5
      [] attr = "region" -> 7
      [] attr = "afk_timeout" -> 12
      [] attr = "afk_channel" -> 12
      [] attr = "icon_url" -> 12
      [] attr = "owner" -> 13
      [] attr = "splash" -> 13
      [] attr = "system_channel" -> 24
      [] attr = "verification_level" -> 19

\* the changed attributes that get lines and fields: icon_url gets neither
RECURSIVE GuildLines(_, _, _)
GuildLines(attrs, b, a) ==
    IF attrs = <<>> THEN <<>>
    ELSE LET x == Head(attrs)
         IN (IF x = "icon_url" THEN <<>>
             ELSE Lit("Before ", 7) \o Lit(GuildLabel(x), GuildLabelLen(x)) \o Lit(" ", 1)
                  \o <<b[x]>> \o NL
                  \o Lit("After ", 6) \o Lit(GuildLabel(x), GuildLabelLen(x)) \o Lit(" ", 1)
                  \o <<a[x]>> \o NL)
            \o GuildLines(Tail(attrs), b, a)

RECURSIVE GuildFields(_, _, _)
GuildFields(attrs, b, a) ==
    IF attrs = <<>> THEN <<>>
    ELSE LET x == Head(attrs)
         IN (IF x = "icon_url" THEN <<>>
             ELSE <<Field("Before " \o GuildLabel(x), <<b[x]>>),
                    Field("After " \o GuildLabel(x), <<a[x]>>)>>)
            \o GuildFields(Tail(attrs), b, a)

\* ", ".join(...) over the entries read
RECURSIVE Joined(_, _)
Joined(logs, kind) ==
    IF logs = <<>> THEN <<>>
    ELSE (IF kind = "str" THEN UserStr(Head(logs).user)
          ELSE IF kind = "mention" THEN UserMention(Head(logs).user)
          ELSE ReasonText(Head(logs).reason))
         \o (IF Tail(logs) = <<>> THEN <<>> ELSE Lit(", ", 2) \o Joined(Tail(logs), kind))

\* f"{reasons}": the repr of the list, ['a', 'b']
RECURSIVE ReprItems(_)
ReprItems(logs) ==
    IF logs = <<>> THEN <<>>
    ELSE Lit("'", 1) \o ReasonText(Head(logs).reason) \o Lit("'", 1)
         \o (IF Tail(logs) = <<>> THEN <<>> ELSE Lit(", ", 2) \o ReprItems(Tail(logs)))

\* worth_updating of on_guild_update
GuildWorth(b, a) == ChangedOf(guild_updates, b, a) # <<>>

on_guild_update(b, a, time) ==
    IF ~Gate("guild_change") THEN Gated("on_guild_update", "guild_change", b, a)
    ELSE
    LET embed_links == EmbedLinks("guild_change")
        attrs == ChangedOf(guild_updates, b, a)
        fields == GuildFields(attrs, b, a)
        worth_updating == GuildWorth(b, a)
        limit == Len(fields) \div 2
        \* async for log in guild.audit_logs(limit=int(len(embed.fields) / 2), ...)
        \* with limit 0 the iterator ends before it asks the endpoint
        asked == worth_updating /\ me.view_audit_log
        looked == IF asked
                  THEN [queries |-> <<[action |-> "guild_update", limit |-> limit]>>,
                        raised |-> me.api_error /\ limit > 0]
                  ELSE [queries |-> <<>>, raised |-> FALSE]
        logs == IF asked /\ ~looked.raised THEN audit_logs(limit, "guild_update") ELSE <<>>
        with_reason == SelectSeq(logs, LAMBDA e : e.reason # NoReason)
        msg == Clock \o Lit(" ", 1) \o Emoji \o Lit(" Guild updated", 14) \o NL
               \o GuildLines(attrs, b, a)
               \o (IF logs # <<>> THEN Lit("Update by ", 10) \o Joined(logs, "str") \o NL
                   ELSE <<>>)
               \o (IF with_reason # <<>>
                   THEN Lit("Reasons ", 8) \o Lit("[", 1) \o ReprItems(with_reason)
                        \o Lit("]", 1) \o NL
                   ELSE <<>>)
        embed == [description |-> IF b.icon_url # a.icon_url
                                  THEN Lit("Server Icon Updated", 19) ELSE <<>>,
                  author |-> None,
                  colour |-> get_event_colour("guild_change"),
                  timestamp |-> time,
                  fields |-> fields
                             \o (IF logs # <<>>
                                 THEN <<Field("Updated by", Joined(logs, "mention"))>>
                                 ELSE <<>>)
                             \o (IF with_reason # <<>>
                                 THEN <<Field("Reasons ", Joined(with_reason, "reason"))>>
                                 ELSE <<>>)]
    IN Outcome("on_guild_update", "guild_change", b, a,
               Differing(b, a), worth_updating,
               IF logs = <<>> THEN None ELSE logs[1].user,
               IF with_reason = <<>> THEN None ELSE with_reason[1].reason,
               looked, msg,
               IF embed_links THEN SendEmbed(embed) ELSE SendText(msg))
       @@ ("perps" :> [i \in 1..Len(logs) |-> logs[i].user])

OnGuildUpdate ==
    /\ last = Idle
    /\ \E a \in Afters(GuildBefore, GuildValues), time \in Times :
         last' = on_guild_update(GuildBefore, a, time)
    /\ UNCHANGED <<settings, me, auditLog>>
    /\ UNCHANGED held

----------------------------------------------------------------------------
(* on_guild_emojis_update *)

EmojiIds == {"e1", "e2"}
EmojiNames == {"smile", "grins"}
EmojiRoles == {<<>>, <<"r1">>, <<"r2">>}

\* a guild's emojis: id -> name and roles (discord.Emoji compares by id)
EmojiSets == UNION {[ids -> [name : EmojiNames, roles : EmojiRoles]] : ids \in SUBSET EmojiIds}
EmojiBefores == {[i \in ids |-> [name |-> "smile", roles |-> <<>>]] : ids \in SUBSET EmojiIds}

\* str(emoji) is <:name:id>
EmojiStr(id, e) == Lit("str:" \o id \o ":" \o e.name, 27)
EmojiId(id) == Lit("id:" \o id, 18)
BQ == Lit("bq", 1)
\* humanize_list of the one role an emoji is restricted to: name (id)
RoleItem(roles, kind) ==
    (IF kind = "mention" THEN Lit("mention:" \o roles[1], 22) ELSE Lit("name:" \o roles[1], 4))
    \o Lit(" (", 2) \o Lit("id:" \o roles[1], 18) \o Lit(")", 1)

\* (a - b).pop(), (b - a).pop(): any one element, None for the empty set
PopsNothing(S) == {None}

Pops(S) == IF S = {} THEN {None} ELSE S

\* the emojis of after whose (emoji, name, roles) is not among those of
\* before + (added_emoji,)
ChangedSet(b, a, added_emoji) ==
    {i \in DOMAIN a : IF i \in DOMAIN b THEN a[i] # b[i] ELSE i # added_emoji}

\* changed_emoji after the for ... else over before
ChangedEmoji(b, popped) == IF popped # None /\ popped \in DOMAIN b THEN popped ELSE None

\* the branches with the added emoji looked at first
EmojiBranchAddedFirst(added_emoji, removed_emoji, changed_emoji) ==
    IF added_emoji # None THEN "added"
    ELSE IF removed_emoji # None THEN "removed"
    ELSE IF changed_emoji # None THEN "changed"
    ELSE "none"

\* the branch the listener takes
EmojiBranch(added_emoji, removed_emoji, changed_emoji) ==
    IF removed_emoji # None THEN "removed"
    ELSE IF added_emoji # None THEN "added"
    ELSE IF changed_emoji # None THEN "changed"
    ELSE "none"

on_guild_emojis_update(b, a, added_emoji, removed_emoji, popped, time) ==
    IF ~Gate("emoji_change") THEN Gated("on_guild_emojis_update", "emoji_change", b, a)
    ELSE
    LET embed_links == EmbedLinks("emoji_change")
        changed_emoji == ChangedEmoji(b, popped)
        branch == EmojiBranch(added_emoji, removed_emoji, changed_emoji)
        worth_updating == branch # "none"
        renamed == branch = "changed" /\ b[changed_emoji].name # a[changed_emoji].name
        action == IF branch = "removed" THEN "emoji_delete"
                  ELSE IF branch = "added" THEN "emoji_create"
                  ELSE IF renamed THEN "emoji_update"
                  ELSE None
        emoji_name == EmojiStr(changed_emoji, a[changed_emoji]) \o Lit(" ", 1) \o BQ
                      \o EmojiStr(changed_emoji, a[changed_emoji]) \o BQ
        old_roles == b[changed_emoji].roles
        new_roles == a[changed_emoji].roles
        lines ==
            IF branch = "removed"
            THEN BQ \o EmojiStr(removed_emoji, b[removed_emoji]) \o BQ \o Lit(" (ID: ", 6)
                 \o EmojiId(removed_emoji) \o Lit(") Removed from the guild", 24) \o NL
            ELSE IF branch = "added"
            THEN EmojiStr(added_emoji, a[added_emoji]) \o Lit(" ", 1) \o BQ
                 \o EmojiStr(added_emoji, a[added_emoji]) \o BQ
                 \o Lit(" Added to the guild", 19) \o NL
            ELSE IF branch = "changed"
            THEN (IF renamed
                  THEN emoji_name \o Lit(" Renamed from ", 14)
                       \o Lit(b[changed_emoji].name, 5) \o Lit(" to ", 4)
                       \o Lit(a[changed_emoji].name, 5) \o NL
                  ELSE <<>>)
                 \o (IF old_roles = new_roles THEN <<>>
                     ELSE IF new_roles = <<>>
                     THEN emoji_name \o Lit(" Changed to unrestricted.", 25) \o NL
                     ELSE IF old_roles = <<>>
                     THEN emoji_name \o Lit(" Restricted to roles: ", 22)
                          \o RoleItem(new_roles, "name") \o NL
                     ELSE emoji_name \o Lit(" Role restriction changed from", 30) \o NL
                          \o Lit(" ", 1) \o RoleItem(old_roles, "mention") \o NL
                          \o Lit(" To", 3) \o NL
                          \o Lit(" ", 1) \o RoleItem(new_roles, "name"))
            ELSE <<>>
        \* async for log in guild.audit_logs(limit=1, action=action): no target is compared
        asked == worth_updating /\ me.view_audit_log /\ action # None
        looked == IF asked
                  THEN [queries |-> <<[action |-> action, limit |-> 1]>>,
                        raised |-> me.api_error]
                  ELSE [queries |-> <<>>, raised |-> FALSE]
        logs == IF asked /\ ~me.api_error THEN audit_logs(1, action) ELSE <<>>
        perp == IF logs = <<>> THEN None ELSE logs[1].user
        reason == IF logs = <<>> \/ logs[1].reason = NoReason THEN None ELSE logs[1].reason
        tail == (IF perp # None THEN Lit("Updated by ", 11) \o UserStr(perp) \o NL ELSE <<>>)
                \o (IF reason # None THEN Lit("Reason ", 7) \o ReasonText(reason) \o NL
                    ELSE <<>>)
        msg == Clock \o Lit(" ", 1) \o Emoji \o Lit(" Updated Server Emojis", 22)
               \o lines \o tail
        embed == [description |-> lines,
                  author |-> None,
                  colour |-> get_event_colour("emoji_change"),
                  timestamp |-> time,
                  fields |-> (IF perp # None THEN <<Field("Updated by ", UserMention(perp))>>
                              ELSE <<>>)
                             \o (IF reason # None
                                 THEN <<Field("Reason ", ReasonText(reason))>> ELSE <<>>)]
    IN Outcome("on_guild_emojis_update", "emoji_change", b, a,
               {i \in EmojiIds : (i \in DOMAIN b) # (i \in DOMAIN a)
                                 \/ (i \in DOMAIN b /\ i \in DOMAIN a /\ b[i] # a[i])},
               worth_updating, perp, reason, looked, msg,
               IF embed_links THEN SendEmbed(embed) ELSE SendText(msg))
       @@ ("branch" :> branch) @@ ("picked" :>
              IF branch = "removed" THEN removed_emoji
              ELSE IF branch = "added" THEN added_emoji
              ELSE changed_emoji)

OnGuildEmojisUpdate ==
    /\ last = Idle
    /\ \E b \in EmojiBefores, a \in EmojiSets :
         \E added_emoji \in Pops(DOMAIN a \ DOMAIN b), removed_emoji \in Pops(DOMAIN b \ DOMAIN a) :
           \E popped \in Pops(ChangedSet(b, a, added_emoji)), time \in Times :
              last' = on_guild_emojis_update(b, a, added_emoji, removed_emoji, popped, time)
    /\ UNCHANGED <<settings, me, auditLog>>
    /\ UNCHANGED held

----------------------------------------------------------------------------
(* on_voice_state_update *)

MemberId == TargetId

VoiceStateBefores ==
    {[deaf |-> FALSE, mute |-> FALSE, channel |-> "vc1", self_mute |-> FALSE],
     [deaf |-> TRUE, mute |-> TRUE, channel |-> "vc1", self_mute |-> FALSE],
     [deaf |-> FALSE, mute |-> FALSE, channel |-> None, self_mute |-> FALSE]}
VoiceStateValues ==
    [deaf : BOOLEAN, mute : BOOLEAN, channel : {None, "vc1", "vc2"}, self_mute : BOOLEAN]

\* `name` (id) mention of a voice channel
ChannelName(c) ==
    BQ \o Lit("name:" \o c, 7) \o BQ \o Lit(" (", 2) \o Lit("id:" \o c, 18) \o Lit(") ", 2)
    \o Mention(c)

\* change_type: the last of deaf, mute, channel that differs
ChangeType(b, a) ==
    IF b.channel # a.channel THEN "channel"
    ELSE IF b.mute # a.mute THEN "mute"
    ELSE IF b.deaf # a.deaf THEN "deaf"
    ELSE None

\* is_change = getattr(log.after, change_type, None), taken for its truth
is_change(entry, change_type) ==
    change_type \in DOMAIN entry.after /\ entry.after[change_type] = TRUE

\* the entry the async for ... break loop of on_voice_state_update stops at
VoiceMatch(logs, change_type) ==
    LET hits == {i \in 1..Len(logs) :
                    logs[i].target = MemberId /\ is_change(logs[i], change_type)}
    IN IF hits = {} THEN 0 ELSE CHOOSE i \in hits : \A j \in hits : i <= j

\* worth_updating of on_voice_state_update
VoiceWorth(b, a) == b.deaf # a.deaf \/ b.mute # a.mute \/ b.channel # a.channel

on_voice_state_update(b, a, time) ==
    IF ~Gate("voice_change") THEN Gated("on_voice_state_update", "voice_change", b, a)
    ELSE
    LET embed_links == EmbedLinks("voice_change")
        member == Mention(MemberId)
        deaf_msg == IF b.deaf = a.deaf THEN <<>>
                    ELSE IF a.deaf THEN member \o Lit(" was deafened. ", 15)
                    ELSE member \o Lit(" was undeafened. ", 17)
        mute_msg == IF b.mute = a.mute THEN <<>>
                    ELSE IF a.mute THEN member \o Lit(" was muted.", 11)
                    ELSE member \o Lit(" was unmuted. ", 14)
        chan_msg == IF b.channel = a.channel THEN <<>>
                    ELSE IF b.channel = None
                    THEN member \o Lit(" has joined ", 12) \o ChannelName(a.channel)
                    ELSE IF a.channel = None
                    THEN member \o Lit(" has left ", 10) \o ChannelName(b.channel)
                    ELSE member \o Lit(" has moved from ", 16) \o ChannelName(b.channel)
                         \o Lit(" to ", 4) \o ChannelName(a.channel)
        worth_updating == VoiceWorth(b, a)
        change_type == ChangeType(b, a)
        asked == worth_updating /\ me.view_audit_log /\ change_type # None
        looked == IF asked
                  THEN [queries |-> <<[action |-> "member_update", limit |-> AuditLimit]>>,
                        raised |-> me.api_error]
                  ELSE [queries |-> <<>>, raised |-> FALSE]
        logs == IF asked /\ ~me.api_error THEN audit_logs(AuditLimit, "member_update") ELSE <<>>
        i == VoiceMatch(logs, change_type)
        perp == IF i = 0 THEN None ELSE logs[i].user
        reason == IF i = 0 \/ logs[i].reason = NoReason THEN None ELSE logs[i].reason
        msg == Clock \o Lit(" ", 1) \o Emoji \o Lit(" Updated Voice State for **", 27)
               \o UserStr(MemberId) \o Lit("** (", 4) \o BQ \o Lit("id:" \o MemberId, 18)
               \o BQ \o Lit(")", 1)
               \o (IF deaf_msg # <<>> THEN deaf_msg \o NL ELSE <<>>)
               \o (IF mute_msg # <<>> THEN mute_msg \o NL ELSE <<>>)
               \o (IF chan_msg = <<>> THEN <<>>
                   ELSE IF b.channel = None \/ a.channel = None THEN chan_msg \o NL
                   ELSE chan_msg)
               \o (IF reason # None THEN Lit("Reason ", 7) \o ReasonText(reason) \o NL
                   ELSE <<>>)
        embed == [description |-> IF chan_msg # <<>> THEN chan_msg
                                  ELSE IF mute_msg # <<>> THEN mute_msg ELSE deaf_msg,
                  author |-> None,
                  colour |-> get_event_colour("voice_change"),
                  timestamp |-> time,
                  fields |-> (IF perp # None THEN <<Field("Updated by", UserMention(perp))>>
                              ELSE <<>>)
                             \o (IF reason # None
                                 THEN <<Field("Reason ", ReasonText(reason))>> ELSE <<>>)]
    IN Outcome("on_voice_state_update", "voice_change", b, a,
               Differing(b, a), worth_updating, perp, reason, looked, msg,
               IF embed_links THEN SendEmbed(embed) ELSE SendText(escape(msg)))

OnVoiceStateUpdate ==
    /\ last = Idle
    /\ \E b \in VoiceStateBefores :
         \E a \in Afters(b, VoiceStateValues), time \in Times :
            last' = on_voice_state_update(b, a, time)
    /\ UNCHANGED <<settings, me, auditLog>>
    /\ UNCHANGED held

----------------------------------------------------------------------------
(* on_member_update *)

RoleNames == {"A", "B", "C"}
Nicks == {None, "nick1", "nick2"}
MemberBefores == {[nick |-> None, roles |-> {"A", "B"}, status |-> "online"],
                  [nick |-> "nick1", roles |-> {}, status |-> "online"]}
MemberValues == [nick : Nicks, roles : SUBSET RoleNames, status : {"online", "idle"}]

\* list(b - a): the elements of a set, in the order the set iterates them
Orders(S) == {f \in [1..Cardinality(S) -> S] : \A i, j \in 1..Cardinality(S) : f[i] = f[j] => i = j}

\* str(nick): a nickname is at most 32 characters, no nickname prints None
NickStr(n) == IF n = None THEN Lit("None", 4) ELSE Lit("nick:" \o n, 32)

RECURSIVE RoleMsgLines(_, _)
RoleMsgLines(roles, verb) ==
    IF roles = <<>> THEN <<>>
    ELSE UserName(MemberId) \o Lit(" had the ", 9) \o Lit("role:" \o Head(roles), 4)
         \o (IF verb = "removed" THEN Lit(" role removed.", 14) ELSE Lit(" role applied.", 14))
         \o RoleMsgLines(Tail(roles), verb)

RECURSIVE RoleEmbedLines(_, _)
RoleEmbedLines(roles, verb) ==
    IF roles = <<>> THEN <<>>
    ELSE UserMention(MemberId) \o Lit(" had the ", 9) \o Lit("mention:" \o Head(roles), 22)
         \o (IF verb = "removed" THEN Lit(" role removed.", 14) ELSE Lit(" role applied.", 14))
         \o NL \o RoleEmbedLines(Tail(roles), verb)

\* the roles the listener reports as removed and as applied
BeforeRolesSwapped(b, a) == a.roles \ b.roles
BeforeRoles(b, a) == b.roles \ a.roles
AfterRoles(b, a) == a.roles \ b.roles

on_member_update(b, a, before_roles, after_roles, time) ==
    IF ~Gate("user_change") THEN Gated("on_member_update", "user_change", b, a)
    ELSE
    LET embed_links == EmbedLinks("user_change")
        nick == settings.events["user_change"].nicknames /\ b.nick # a.nick
        roles == b.roles # a.roles
        nick_look == IF nick THEN get_audit_log_reason(MemberId, "member_update")
                     ELSE [perp |-> None, reason |-> None, queries |-> <<>>, raised |-> FALSE]
        role_look == IF roles /\ ~nick_look.raised
                     THEN get_audit_log_reason(MemberId, "member_role_update")
                     ELSE [perp |-> None, reason |-> None, queries |-> <<>>, raised |-> FALSE]
        final == IF roles THEN role_look ELSE nick_look
        perp == final.perp
        reason == final.reason
        looked == [queries |-> nick_look.queries \o role_look.queries,
                   raised |-> nick_look.raised \/ role_look.raised]
        worth_sending == nick \/ roles
        msg == Clock \o Lit(" ", 1) \o Emoji \o Lit(" Member updated **", 18)
               \o UserStr(MemberId) \o Lit("** (", 4) \o BQ \o Lit("id:" \o MemberId, 18)
               \o BQ \o Lit(")", 1) \o NL
               \o (IF nick
                   THEN Lit("Before ", 7) \o Lit("Nickname:", 9) \o Lit(" ", 1)
                        \o NickStr(b.nick) \o NL
                        \o Lit("After ", 6) \o Lit("Nickname:", 9) \o Lit(" ", 1)
                        \o NickStr(a.nick) \o NL
                   ELSE <<>>)
               \o (IF roles
                   THEN RoleMsgLines(before_roles, "removed")
                        \o RoleMsgLines(after_roles, "applied")
                   ELSE <<>>)
               \o (IF perp # None THEN Lit("Updated by ", 11) \o UserStr(perp) \o NL ELSE <<>>)
               \o (IF reason # None THEN Lit("Reason: ", 8) \o ReasonText(reason) \o NL
                   ELSE <<>>)
        embed == [description |->
                      (IF nick THEN UserMention(MemberId) \o Lit(" changed their nickname.", 24)
                       ELSE <<>>)
                      \o (IF roles
                          THEN RoleEmbedLines(before_roles, "removed")
                               \o RoleEmbedLines(after_roles, "applied")
                          ELSE <<>>),
                  author |-> None,
                  colour |-> get_event_colour("user_change"),
                  timestamp |-> time,
                  fields |-> (IF nick
                              THEN <<Field("Before Nickname:", SliceTo(NickStr(b.nick), FieldLimit)),
                                     Field("After Nickname:", SliceTo(NickStr(a.nick), FieldLimit))>>
                              ELSE <<>>)
                             \o (IF perp # None THEN <<Field("Updated by ", UserMention(perp))>>
                                 ELSE <<>>)
                             \o (IF reason # None
                                 THEN <<Field("Reason", ReasonText(reason))>> ELSE <<>>)]
    IN Outcome("on_member_update", "user_change", b, a,
               Differing(b, a), worth_sending, perp, reason, looked, msg,
               IF embed_links THEN SendEmbed(embed) ELSE SendText(msg))
       @@ ("before_roles" :> before_roles) @@ ("after_roles" :> after_roles)

OnMemberUpdate ==
    /\ last = Idle
    /\ \E b \in MemberBefores, a \in MemberValues :
         \E before_roles \in Orders(BeforeRoles(b, a)), after_roles \in Orders(AfterRoles(b, a)),
            time \in Times :
            last' = on_member_update(b, a, before_roles, after_roles, time)
    /\ UNCHANGED <<settings, me, auditLog>>
    /\ UNCHANGED held

----------------------------------------------------------------------------
(* Messages: on_command, on_message_edit, on_raw_message_delete *)

\* the author of the messages
AuthorId == TargetId
MessageChannels == {"c1", "c2"}

\* message.content: nothing, a few words, a long text with @everyone in it, and
\* the longest text a message can hold; none holds a user, role or channel
\* mention, so message.clean_content is the same text
Contents == {<<>>, <<P("words", 10)>>, <<PM("long", 1990, 1)>>, <<P("longest", 4000)>>}
Messages == [content : Contents, channel : MessageChannels, attachments : {0, 1}]

TextLimit == 2000

\* listeners that made no lookup
NoLookup == [queries |-> <<>>, raised |-> FALSE]
\* an exception other than of a lookup left the listener
Failed == [queries |-> <<>>, raised |-> TRUE]

\* role of on_command for the privilege level of the command; no mod role set
Requires(privs) ==
    IF privs = "MOD" THEN Lit("Not Set", 7) \o NL \o Lit("MOD", 3) \o NL
    ELSE Lit("everyone", 8) \o NL \o Lit("NONE", 4) \o NL

\* infomessage of on_command
CommandInfo(message) ==
    Clock \o Lit(" ", 1) \o Emoji \o Lit(" **", 3) \o UserStr(AuthorId) \o Lit("** (", 4)
    \o BQ \o Lit("id:" \o AuthorId, 18) \o BQ \o Lit(") used ", 7) \o BQ \o message.content
    \o BQ \o Lit(" in ", 4) \o Mention(message.channel)

\* what on_command sends as plain text
CommandTextTail(message) ==
    Drop(CommandInfo(message), StrLen(CommandInfo(message)) - TextLimit)
CommandText(message) == SliceTo(CommandInfo(message), TextLimit)

on_command(message, privs, my_perms, can_run) ==
    IF ~Gate("commands_used") \/ privs \notin settings.events["commands_used"].privs
    THEN Gated("on_command", "commands_used", message, message)
    ELSE
    LET embed_links == EmbedLinks("commands_used")
        infomessage == CommandInfo(message)
        \* i_require is bound only when the command requires bot permissions
        looked == IF embed_links /\ ~my_perms THEN Failed ELSE NoLookup
        embed == [description |-> UserMention(AuthorId) \o Lit(" ", 1) \o message.content,
                  author |-> AuthorId,
                  colour |-> get_event_colour("commands_used"),
                  timestamp |-> CreatedAt,
                  fields |-> <<Field("Channel", Mention(message.channel)),
                               Field("Can Run", IF can_run THEN Lit("True", 4)
                                                ELSE Lit("False", 5)),
                               Field("Requires", Requires(privs)),
                               Field("Bot Requires", Lit("Manage Messages", 15)),
                               Field("ID", Lit("fence:asciidoc", 11) \o NL
                                           \o Lit("Channel :: ", 11)
                                           \o Lit("id:" \o message.channel, 18) \o NL
                                           \o Lit("User :: ", 8) \o Lit("id:" \o AuthorId, 18)
                                           \o Lit("fence", 3))>>]
    IN Outcome("on_command", "commands_used", message, message, {}, TRUE, None, None,
               looked, infomessage,
               IF embed_links THEN SendEmbed(embed) ELSE SendText(CommandText(message)))

OnCommand ==
    /\ last = Idle
    /\ \E message \in Messages, privs \in {"MOD", "NONE"}, my_perms \in BOOLEAN :
         /\ message.content # <<>>
         /\ message.attachments = 0
         /\ last' = on_command(message, privs, my_perms, TRUE)
    /\ UNCHANGED <<settings, me, auditLog>>
    /\ UNCHANGED held

\* msg of on_message_edit
EditMsg(b, a) ==
    Clock \o Lit(" ", 1) \o Emoji \o Lit(" **", 3) \o UserStr(AuthorId) \o Lit("** (", 4)
    \o BQ \o Lit("id:" \o AuthorId, 18) \o BQ \o Lit(") edited a message in ", 22)
    \o Mention(b.channel) \o Lit(".", 1) \o NL \o Lit("Before:", 7) \o NL \o Lit("> ", 2)
    \o escape(b.content) \o NL \o Lit("After:", 6) \o NL \o Lit("> ", 2) \o escape(a.content)

EditText(b, a) == SliceTo(EditMsg(b, a), TextLimit)

on_message_edit(b, a) ==
    IF ~settings.present \/ ~settings.events["message_edit"].enabled
       \/ b.content = a.content \/ ~modlog_channel("message_edit")
    THEN Gated("on_message_edit", "message_edit", b, a)
    ELSE
    LET embed_links == EmbedLinks("message_edit")
        embed == [description |-> UserMention(AuthorId) \o Lit(": ", 2) \o b.content,
                  author |-> AuthorId,
                  colour |-> get_event_colour("message_edit"),
                  timestamp |-> CreatedAt,
                  fields |-> <<Field("After Message:", Lit("[Click to see new message](url)", 31)),
                               Field("Channel:", Mention(b.channel))>>]
    IN Outcome("on_message_edit", "message_edit", b, a, {"content"}, TRUE, None, None,
               NoLookup, EditMsg(b, a),
               IF embed_links THEN SendEmbed(embed) ELSE SendText(EditText(b, a)))

OnMessageEdit ==
    /\ last = Idle
    /\ \E b \in Messages, content \in Contents :
         /\ b.attachments = 0
         /\ last' = on_message_edit(b, [b EXCEPT !.content = content])
    /\ UNCHANGED <<settings, me, auditLog>>
    /\ UNCHANGED held

\* the async for ... break loop of _cached_message_delete over
\* guild.audit_logs(limit=2, action=message_delete)
DeleteMatch(logs, message) ==
    LET hits == {i \in 1..Len(logs) :
                    logs[i].target = AuthorId /\ logs[i].extra = message.channel}
    IN IF hits = {} THEN 0 ELSE CHOOSE i \in hits : \A j \in hits : i <= j

\* infomessage of _cached_message_delete
DeleteInfo(message, perp) ==
    IF perp = None
    THEN Clock \o Lit(" ", 1) \o Emoji \o Lit(" **", 3) \o UserStr(AuthorId) \o Lit("** (", 4)
         \o BQ \o Lit("id:" \o AuthorId, 18) \o BQ \o Lit(")'s message was deleted in ", 27)
         \o Mention(message.channel)
    ELSE Clock \o Lit(" ", 1) \o Emoji \o Lit(" ", 1)
         \o Lit("**", 2) \o UserStr(perp) \o Lit("** (", 4) \o BQ \o Lit("id:" \o perp, 18)
         \o BQ \o Lit(")", 1)
         \o Lit(" deleted a message from **", 26) \o UserStr(AuthorId) \o Lit("** (", 4)
         \o BQ \o Lit("id:" \o AuthorId, 18) \o BQ \o Lit(") in ", 5)
         \o Mention(message.channel)

\* the room _cached_message_delete leaves to the content
DeleteRoom == 1990

\* clean_msg of _cached_message_delete
CleanMsgWhole(message, infomessage) == escape(message.content)
CleanMsg(message, infomessage) ==
    SliceTo(escape(message.content), DeleteRoom - StrLen(infomessage))

\* the text _cached_message_delete quotes the content under
DeleteLead(infomessage) == infomessage \o NL \o Lit(">>> ", 4)

PageLength == 1000

_cached_message_delete(message, check_audit_log) ==
    IF message.content = <<>> /\ message.attachments = 0
    THEN Gated("on_raw_message_delete", "message_delete", message, message)
    ELSE
    LET embed_links == EmbedLinks("message_delete")
        asked == me.view_audit_log /\ check_audit_log
        looked == IF asked
                  THEN [queries |-> <<[action |-> "message_delete", limit |-> 2]>>,
                        raised |-> me.api_error]
                  ELSE NoLookup
        logs == IF asked /\ ~me.api_error THEN audit_logs(2, "message_delete") ELSE <<>>
        i == DeleteMatch(logs, message)
        perp == IF i = 0 THEN None ELSE logs[i].user
        infomessage == DeleteInfo(message, perp)
        content == pagify(UserMention(AuthorId) \o Lit(": ", 2) \o message.content, PageLength)
        embed == [description |-> Head(content),
                  author |-> AuthorId,
                  colour |-> get_event_colour("message_delete"),
                  timestamp |-> CreatedAt,
                  fields |-> PageFields("Message Continued", Tail(content))
                             \o <<Field("Channel", Mention(message.channel))>>
                             \o (IF perp # None
                                 THEN <<Field("Moderator",
                                              Lit("**", 2) \o UserStr(perp) \o Lit("** (", 4)
                                              \o BQ \o Lit("id:" \o perp, 18) \o BQ
                                              \o Lit(")", 1))>>
                                 ELSE <<>>)
                             \o (IF message.attachments > 0
                                 THEN <<Field("Attachments", Lit("file.png", 8))>> ELSE <<>>)
                             \o <<Field("ID", Lit("fence:asciidoc", 11) \o NL
                                              \o Lit("User :: ", 8) \o Lit("id:" \o AuthorId, 18)
                                              \o NL \o Lit("Channel :: ", 11)
                                              \o Lit("id:" \o message.channel, 18) \o NL
                                              \o Lit("Message :: ", 11) \o Lit("id:message", 18)
                                              \o NL
                                              \o (IF perp # None
                                                  THEN Lit("Moderator: ", 11)
                                                       \o Lit("id:" \o perp, 18)
                                                  ELSE <<>>))>>]
        whole == DeleteLead(infomessage) \o CleanMsgWhole(message, infomessage)
    IN Outcome("on_raw_message_delete", "message_delete", message, message, {}, TRUE,
               perp, None, looked, whole,
               IF embed_links THEN SendEmbed(embed)
               ELSE SendText(DeleteLead(infomessage) \o CleanMsg(message, infomessage)))

\* payload.cached_message of a message that is not in the cache
Uncached(channel) == [channel |-> channel]

on_raw_message_delete_listener(channel, cached, check_audit_log) ==
    IF ~Gate("message_delete")
    THEN Gated("on_raw_message_delete", "message_delete", cached, cached)
    ELSE IF cached = Uncached(channel)
    THEN IF settings.events["message_delete"].cached_only
         THEN Gated("on_raw_message_delete", "message_delete", cached, cached)
         ELSE LET infomessage == Clock \o Lit(" ", 1) \o Emoji
                                 \o Lit(" A message was deleted in ", 26) \o Mention(channel)
                  msg == infomessage \o NL \o Lit("> ? *Unknown Message*", 21)
                  embed == [description |-> Lit("? *Unknown Message*", 19),
                            author |-> None,
                            colour |-> get_event_colour("message_delete"),
                            timestamp |-> None,
                            fields |-> <<Field("Channel", Mention(channel)),
                                         Field("ID", Lit("fence", 3) \o NL
                                                     \o Lit("Channel: ", 9)
                                                     \o Lit("id:" \o channel, 18)
                                                     \o Lit("fence", 3))>>]
              IN Outcome("on_raw_message_delete", "message_delete", cached, cached, {},
                         TRUE, None, None, NoLookup, msg,
                         IF EmbedLinks("message_delete") THEN SendEmbed(embed)
                         ELSE SendText(msg))
    ELSE _cached_message_delete(cached, check_audit_log)

OnRawMessageDelete ==
    /\ last = Idle
    /\ \E channel \in MessageChannels :
         \E cached \in {Uncached(channel)} \cup {m \in Messages : m.channel = channel} :
            last' = on_raw_message_delete_listener(channel, cached, TRUE)
    /\ UNCHANGED <<settings, me, auditLog>>
    /\ UNCHANGED held

----------------------------------------------------------------------------
(* on_raw_bulk_message_delete *)

\* the most cached messages a bulk delete of the model carries
MaxCached == 2

\* the channel the messages were in, and the cached messages a payload may
\* carry: one with nothing to show, a short one, a long one with a file
BulkChannel == "c1"
BulkMessages ==
    {[content |-> <<>>, channel |-> BulkChannel, attachments |-> 0],
     [content |-> <<P("words", 10)>>, channel |-> BulkChannel, attachments |-> 0],
     [content |-> <<PM("long", 1990, 1)>>, channel |-> BulkChannel, attachments |-> 1]}
BulkCached == UNION {[1..n -> BulkMessages] : n \in 0..MaxCached}

\* check_audit_log of a listener called with the default of the keyword
BulkCheckDefault == TRUE

\* check_audit_log=False of the call per cached message
BulkCheck == FALSE

\* the for loop over payload.cached_messages that stops at the first
\* exception: what is processed after a rejected send is nothing
BulkPartsUntilFailure(channel, cached_messages, rejected) ==
    LET failed == {i \in 1..Len(cached_messages) : i \in rejected}
        stop == IF failed = {} THEN Len(cached_messages)
                ELSE CHOOSE i \in failed : \A j \in failed : i <= j
    IN [i \in 1..stop |->
          [out |-> on_raw_message_delete_listener(channel, cached_messages[i], BulkCheck),
           rejected |-> i \in rejected]]

\* the for loop over payload.cached_messages: each message goes through
\* on_raw_message_delete_listener inside try/except Exception: pass; rejected
\* are the messages whose channel.send raises
BulkParts(channel, cached_messages, rejected) ==
    [i \in 1..Len(cached_messages) |->
        [out |-> on_raw_message_delete_listener(channel, cached_messages[i], BulkCheck),
         rejected |-> i \in rejected]]

\* what the parts deliver and what they ask the audit log
PartNotes(parts) ==
    Flatten([i \in 1..Len(parts) |-> IF parts[i].rejected THEN <<>> ELSE parts[i].out.sent])
PartQueries(parts) == Flatten([i \in 1..Len(parts) |-> parts[i].out.queries])

\* guild.id in self.settings, settings["enabled"] and settings["bulk_enabled"]
BulkGate ==
    /\ settings.present
    /\ settings.events["message_delete"].enabled
    /\ settings.events["message_delete"].bulk_enabled

on_raw_bulk_message_delete(channel, cached_messages, rejected) ==
    IF ~BulkGate \/ ~modlog_channel("message_delete")
    THEN Gated("on_raw_bulk_message_delete", "message_delete", cached_messages,
               cached_messages) @@ ("parts" :> <<>>)
    ELSE
    LET embed_links == EmbedLinks("message_delete")
        amount == <<P("amount", 1)>>
        embed == [description |-> Mention(channel),
                  author |-> None,
                  colour |-> get_event_colour("message_delete"),
                  timestamp |-> None,
                  fields |-> <<Field("Channel", Mention(channel)),
                               Field("# of Messages Deleted", amount),
                               Field("ID", Lit("fence", 3) \o NL \o Lit("Channel: ", 9)
                                           \o Lit("id:" \o channel, 18) \o Lit("fence", 3))>>]
        infomessage == Clock \o Lit(" ", 1) \o Emoji \o Lit(" **", 3) \o amount
                       \o Lit("** messages were deleted in ", 28) \o Mention(channel) \o Lit(".", 1)
        summary == IF embed_links THEN SendEmbed(embed) ELSE SendText(infomessage)
        parts == IF settings.events["message_delete"].bulk_individual
                 THEN BulkParts(channel, cached_messages, rejected)
                 ELSE <<>>
    IN [handler |-> "on_raw_bulk_message_delete", event |-> "message_delete",
        before |-> cached_messages, after |-> cached_messages,
        embed_links |-> embed_links, changed |-> {}, worth |-> TRUE,
        perp |-> None, reason |-> None,
        queries |-> PartQueries(parts), raised |-> FALSE,
        rendered |-> infomessage,
        sent |-> <<summary>> \o PartNotes(parts),
        parts |-> parts]

OnRawBulkMessageDelete ==
    /\ last = Idle
    /\ \E cached_messages \in BulkCached :
         \E rejected \in SUBSET (1..Len(cached_messages)) :
            last' = on_raw_bulk_message_delete(BulkChannel, cached_messages, rejected)
    /\ UNCHANGED <<settings, me, auditLog>>
    /\ UNCHANGED held

----------------------------------------------------------------------------
(* The lookup on its own: get_audit_log_reason over a growing audit log *)

ScanActions == {"kick", "channel_create"}

LookupRecord ==
    \E a \in ScanActions, t \in Ids, r \in Reasons :
        AuditRecord(a, t, r, NoAfter)

Lookup ==
    /\ last = Idle
    /\ \E a \in ScanActions, t \in Ids :
         LET got == get_audit_log_reason(t, a)
         IN last' = [handler |-> "get_audit_log_reason", target |-> t, action |-> a,
                     perp |-> got.perp, reason |-> got.reason,
                     queries |-> got.queries, raised |-> got.raised]
    /\ UNCHANGED <<settings, me, auditLog>>
    /\ UNCHANGED held

\* the invocation under observation has ended
Return ==
    /\ last # Idle
    /\ last' = Idle
    /\ UNCHANGED <<settings, me, auditLog>>
    /\ UNCHANGED held

\* the invite codes, and an invite table: code -> the invite, or Absent
Codes == {"a", "b"}
Absent == [present |-> FALSE, uses |-> 0, max_uses |-> 0]
Invite(uses, max_uses) == [present |-> TRUE, uses |-> uses, max_uses |-> max_uses]
NoTable == [c \in Codes |-> Absent]

\* no invite, no coroutine in flight, nothing delivered, nobody banned
\* self.settings holds no other guild
NoOthers == [g \in {} |-> TRUE]

Quiet ==
    /\ guildInvites = NoTable
    /\ config = NoTable
    /\ invite_links = NoTable
    /\ delivered = <<>>
    /\ tasks = <<>>
    /\ ban_cache = {}
    /\ others = NoOthers

InitLookup ==
    /\ settings = AllEvents(DefaultOptions)
    /\ me = Healthy
    /\ auditLog = [a \in Actions |-> <<>>]
    /\ last = Idle
    /\ Quiet

NextLookup == LookupRecord \/ Lookup \/ Return

SpecLookup == InitLookup /\ [][NextLookup]_vars

----------------------------------------------------------------------------
(* The listeners under every setting, with a short audit log *)

\* an override colour is read only where an embed is made
OptionChoices ==
    {o \in [enabled : BOOLEAN, embed : BOOLEAN, nicknames : BOOLEAN, bots : {FALSE},
             privs : {Privs}, cached_only : {FALSE}, colour : {None, "override"},
             channel : {None}, bulk_enabled : {TRUE}, bulk_individual : {TRUE}] :
        o.colour # None => (o.enabled /\ o.embed)}
MeChoices == [view_audit_log : BOOLEAN, embed_links : {TRUE}, send_messages : {TRUE},
              api_error : BOOLEAN, manage_guild : {TRUE}]

\* what the audit log holds for an action when a listener runs: nothing, the
\* change of the entity itself (with or without a reason), or that change
\* below a newer entry about another entity
Entry(target, user, reason, after) ==
    [target |-> target, user |-> user, reason |-> reason, after |-> after,
     extra |-> ExtraChannel]
Muted == [x \in {"deaf", "mute"} |-> TRUE]
Unmuted == [x \in {"deaf", "mute"} |-> FALSE]
Renamed == [x \in {"nick"} |-> "nick"]
EntryChoices ==
    {<<>>,
     <<Entry(TargetId, "u1", "because", NoAfter)>>,
     <<Entry(TargetId, "u1", NoReason, Muted)>>,
     <<Entry(TargetId, "u1", "because", Unmuted)>>,
     <<Entry(OtherId, "u2", "because", Muted), Entry(TargetId, "u1", NoReason, Muted)>>,
     <<Entry(TargetId, "u2", "because", Renamed), Entry(TargetId, "u1", "because", Muted)>>,
     <<Entry(TargetId, "u1", LongReason, NoAfter), Entry(TargetId, "u2", LongReason, NoAfter)>>}

\* where the notifications go: whether a modlog channel is set, the channel
\* of the event itself, and whether the bot may send there
Destinations == [modlog : BOOLEAN, channel : {None, GoneChannel, "event channel"},
                 send_messages : BOOLEAN]
Usual == [modlog |-> TRUE, channel |-> None, send_messages |-> TRUE]

\* the settings with the destination d
Routed(o, d) ==
    [present |-> TRUE, modlog |-> d.modlog,
     events |-> [k \in EventKinds |-> [o EXCEPT !.channel = d.channel]]]

\* a guild that is not in the settings table, and the bulk options of
\* message_delete switched off, with embeds and with text
OtherSettings ==
    {[AllEvents(DefaultOptions) EXCEPT !.present = FALSE]}
    \cup {AllEvents([o EXCEPT !.embed = e]) :
            o \in {[DefaultOptions EXCEPT !.bulk_enabled = FALSE],
                   [DefaultOptions EXCEPT !.bulk_individual = FALSE],
                   [DefaultOptions EXCEPT !.enabled = FALSE, !.bulk_enabled = FALSE]},
            e \in BOOLEAN}

\* every option, permission and audit log under the usual destination; the
\* other destinations and the other settings under the default options
Init ==
    /\ \/ /\ \E o \in OptionChoices : settings = AllEvents(o)
          /\ me \in MeChoices
          /\ \E es \in EntryChoices : auditLog = [a \in Actions |-> es]
       \/ /\ \E d \in Destinations \ {Usual} :
                /\ settings = Routed(DefaultOptions, d)
                /\ me = [Healthy EXCEPT !.send_messages = d.send_messages]
          /\ auditLog = [a \in Actions |-> <<Entry(TargetId, "u1", "because", NoAfter)>>]
       \/ /\ settings \in OtherSettings
          /\ me = Healthy
          /\ auditLog = [a \in Actions |-> <<Entry(TargetId, "u1", "because", NoAfter)>>]
    /\ last = Idle
    /\ Quiet

Next ==
    \/ OnGuildChannelUpdate
    \/ OnGuildRoleUpdate
    \/ OnGuildUpdate
    \/ OnGuildEmojisUpdate
    \/ OnVoiceStateUpdate
    \/ OnMemberUpdate
    \/ OnCommand
    \/ OnMessageEdit
    \/ OnRawMessageDelete
    \/ OnRawBulkMessageDelete
    \/ Return

Spec == Init /\ [][Next]_vars

----------------------------------------------------------------------------
(* C3 *)

LookedUp == last.handler = "get_audit_log_reason"

\* positions (1 = newest) among the newest AuditLimit entries of the action
\* looked up whose target is the target looked up
Window == 1..Min(AuditLimit, Len(auditLog[last.action]))
Matching == {i \in Window : auditLog[last.action][i].target = last.target}

\* C3: get_audit_log_reason makes one query for the 5 newest entries of the
\* action and returns the actor and the reason (None when the entry has none)
\* of the newest of them whose target is the target looked up; when none of
\* the 5 matches, also when an older entry does, it returns (None, None).
C3_NewestMatchWithinFive ==
    LookedUp =>
        /\ last.queries = <<[action |-> last.action, limit |-> 5]>>
        /\ ~last.raised
        /\ Matching = {} => last.perp = None /\ last.reason = None
        /\ \A i \in Matching :
             (\A j \in Matching : i <= j) =>
                 /\ last.perp = auditLog[last.action][i].user
                 /\ last.reason = IF auditLog[last.action][i].reason = NoReason
                                  THEN None ELSE auditLog[last.action][i].reason

\* the entry at position 3 (0-indexed) is returned: the three newer ones do
\* not match, and the matching entry at position 5 is out of reach
C3_Witness ==
    /\ LookedUp
    /\ Len(auditLog[last.action]) >= 6
    /\ Matching = {4, 5}
    /\ auditLog[last.action][6].target = last.target
    /\ last.perp = auditLog[last.action][4].user
    /\ last.reason = "because"

----------------------------------------------------------------------------
(* The update listeners and the attributes they watch *)

UpdateHandlers == {"on_guild_channel_update", "on_guild_role_update", "on_guild_update",
                   "on_guild_emojis_update", "on_voice_state_update", "on_member_update"}

\* the watched attributes of the snapshots of an outcome
Watched(r) ==
    IF r.handler = "on_guild_channel_update"
    THEN (IF r.chtype = "text"
          THEN {"name", "topic", "category", "slowmode_delay", "nsfw", "overwrites"}
          ELSE IF r.chtype = "voice"
          THEN {"name", "position", "category", "bitrate", "user_limit", "overwrites"}
          ELSE {})
    ELSE IF r.handler = "on_guild_role_update"
    THEN {"name", "color", "mentionable", "hoist", "permissions"}
    ELSE IF r.handler = "on_member_update" THEN {"nick", "roles"}
    ELSE IF r.handler = "on_guild_update"
    THEN {"name", "region", "afk_timeout", "afk_channel", "icon_url", "owner", "splash",
          "system_channel", "verification_level"}
    ELSE IF r.handler = "on_voice_state_update" THEN {"deaf", "mute", "channel"}
    ELSE {}

\* the watched attributes in which the snapshots of an outcome differ; an
\* emoji set is watched as a whole
WatchedDiff(r) ==
    IF r.handler = "on_guild_emojis_update"
    THEN (IF r.before = r.after THEN {} ELSE {"emojis"})
    ELSE {x \in Watched(r) : r.before[x] # r.after[x]}

\* the listener of outcome r went past its gate and met no exception
Ran(r) == r.rendered # <<>>

\* the pieces of text that start a change record
RecordTags == {"Before ", "After ", "Permissions Changed: ", " Set to **",
               " role removed.", " role applied."}
Records(text) == {i \in 1..Len(text) : text[i].t \in RecordTags}

\* C1: an update listener whose before and after snapshots differ in no
\* watched attribute (for channels: with the same overwrites too) sends nothing
\* to the modlog channel.
C1_NoWatchedDifferenceNoSend ==
    (last.handler \in UpdateHandlers /\ WatchedDiff(last) = {}) => last.sent = <<>>

\* a channel listener that ran on two equal snapshots and sent nothing
C1_Witness ==
    /\ last.handler = "on_guild_channel_update"
    /\ last.chtype = "text"
    /\ Ran(last)
    /\ last.before = last.after
    /\ last.sent = <<>>

\* C2: when before and after differ only in attributes outside the watched
\* list of their kind (text channel, voice channel, role, member, guild), the
\* listener makes no change record and sends no notification.
C2_UnwatchedOnlyNoRecord ==
    (/\ last.handler \in {"on_guild_channel_update", "on_guild_role_update",
                          "on_member_update", "on_guild_update"}
     /\ last.before # last.after
     /\ WatchedDiff(last) = {})
    => (Records(last.rendered) = {} /\ last.sent = <<>>)

\* a role listener that ran on a role that only moved, and sent nothing
C2_Witness ==
    /\ last.handler = "on_guild_role_update"
    /\ Ran(last)
    /\ last.before.position # last.after.position
    /\ WatchedDiff(last) = {}
    /\ Records(last.rendered) = {}
    /\ last.sent = <<>>

----------------------------------------------------------------------------
(* Correlation with the audit log *)

\* the listeners that look the actor up in the audit log
Correlating == UpdateHandlers \cup {"on_raw_message_delete"}

NoMatch == [perp |-> None, reason |-> None, queries |-> <<>>, raised |-> FALSE]

\* C4: without the view_audit_log permission the correlation gives no actor and
\* no reason, raises nothing and asks the audit log nothing, and the listener
\* still sends its notification, without actor and reason, whenever the change
\* is worth sending.
C4_NoPermissionNoQuery ==
    ~me.view_audit_log =>
        /\ \A t \in Ids, a \in Actions : get_audit_log_reason(t, a) = NoMatch
        /\ last.handler \in Correlating =>
              /\ last.queries = <<>>
              /\ ~last.raised
              /\ last.perp = None /\ last.reason = None
              /\ last.worth => Len(last.sent) = 1

\* a member was muted, the audit log names who did it and its endpoint would
\* fail, the bot may not read it: the notification is sent without the actor
C4_Witness ==
    /\ ~me.view_audit_log
    /\ me.api_error
    /\ last.handler = "on_voice_state_update"
    /\ ~last.before.mute /\ last.after.mute
    /\ \E i \in 1..Len(auditLog["member_update"]) :
          /\ auditLog["member_update"][i].target = MemberId
          /\ is_change(auditLog["member_update"][i], "mute")
    /\ last.perp = None
    /\ Len(last.sent) = 1

\* C5: when the query of the audit log itself fails, the error is swallowed,
\* the correlation counts as no match and the notification of the event is
\* still delivered.
C5_QueryFailureSwallowed ==
    (last.handler \in Correlating /\ last.worth /\ last.queries # <<>> /\ me.api_error)
    => (~last.raised /\ Len(last.sent) = 1 /\ last.perp = None /\ last.reason = None)

\* C6: on_voice_state_update takes the actor from the newest of the 5 most
\* recent member_update entries whose target is the member and whose after
\* state holds a changed sub-attribute (deaf, mute, channel), whatever the
\* value it holds: also when the member was un-muted or un-deafened, and when
\* more than one sub-attribute changed.
C6_ActorFromEntryRecordingChange ==
    (/\ last.handler = "on_voice_state_update" /\ Ran(last) /\ last.worth
     /\ me.view_audit_log /\ ~me.api_error)
    => LET logs == audit_logs(AuditLimit, "member_update")
           subs == {x \in {"deaf", "mute", "channel"} : last.before[x] # last.after[x]}
           hits == {i \in 1..Len(logs) :
                       /\ logs[i].target = MemberId
                       /\ \E x \in subs : x \in DOMAIN logs[i].after}
       IN last.perp = IF hits = {} THEN None
                      ELSE logs[CHOOSE i \in hits : \A j \in hits : i <= j].user

----------------------------------------------------------------------------
(* What a notification says *)

\* the text of the one notification of an outcome: the message, or the
\* description of the embed
NoteText(r) == IF r.sent[1].mode = "text" THEN r.sent[1].text ELSE r.sent[1].embed.description

Count(text, tag) == Cardinality({i \in 1..Len(text) : text[i].t = tag})

\* how many added, removed and renamed lines a text holds
EmojiLines(text) ==
    <<Count(text, " Added to the guild"), Count(text, ") Removed from the guild"),
      Count(text, " Renamed from ")>>

\* C7: on_guild_emojis_update reports a single change exactly: one emoji added
\* to an otherwise unchanged set gives one added line and no removed or renamed
\* line; one emoji removed gives one removed line and nothing else; one emoji
\* renamed (same id, other name) gives one renamed line and no added or removed
\* line.
C7_SingleEmojiChange ==
    (last.handler = "on_guild_emojis_update" /\ Ran(last))
    => LET b == last.before
           a == last.after
           added == DOMAIN a \ DOMAIN b
           removed == DOMAIN b \ DOMAIN a
           altered == {i \in DOMAIN a \cap DOMAIN b : a[i] # b[i]}
       IN /\ (Cardinality(added) = 1 /\ removed = {} /\ altered = {})
             => (Len(last.sent) = 1 /\ EmojiLines(NoteText(last)) = <<1, 0, 0>>)
          /\ (Cardinality(removed) = 1 /\ added = {} /\ altered = {})
             => (Len(last.sent) = 1 /\ EmojiLines(NoteText(last)) = <<0, 1, 0>>)
          /\ (/\ added = {} /\ removed = {} /\ Cardinality(altered) = 1
              /\ \A i \in altered : a[i].name # b[i].name)
             => (Len(last.sent) = 1 /\ EmojiLines(NoteText(last)) = <<0, 0, 1>>)

\* one of two emojis was renamed and nothing else happened: one renamed line
C7_Witness ==
    /\ last.handler = "on_guild_emojis_update"
    /\ DOMAIN last.before = EmojiIds /\ DOMAIN last.after = EmojiIds
    /\ last.before["e1"] = last.after["e1"]
    /\ last.before["e2"].name # last.after["e2"].name
    /\ last.before["e2"].roles = last.after["e2"].roles
    /\ Len(last.sent) = 1
    /\ EmojiLines(NoteText(last)) = <<0, 0, 1>>

\* how many times a text says that role r was removed or applied (verb)
RoleLineCount(text, r, verb) ==
    Cardinality({i \in 1..(Len(text) - 1) :
                    /\ text[i].t \in {"role:" \o r, "mention:" \o r}
                    /\ text[i + 1].t = verb})

\* C8: on_member_update says once that a role was removed for every role of
\* before that is not in after, once that a role was applied for every role of
\* after that is not in before, and nothing about a role that is in both.
C8_RoleDiffLines ==
    (/\ last.handler = "on_member_update" /\ Ran(last)
     /\ last.before.roles # last.after.roles)
    => /\ Len(last.sent) = 1
       /\ \A r \in RoleNames :
            /\ RoleLineCount(NoteText(last), r, " role removed.")
                 = IF r \in last.before.roles \ last.after.roles THEN 1 ELSE 0
            /\ RoleLineCount(NoteText(last), r, " role applied.")
                 = IF r \in last.after.roles \ last.before.roles THEN 1 ELSE 0

\* before = {A, B}, after = {B, C}: removed A and applied C only
C8_Witness ==
    /\ last.handler = "on_member_update"
    /\ last.before.roles = {"A", "B"} /\ last.after.roles = {"B", "C"}
    /\ Len(last.sent) = 1
    /\ RoleLineCount(NoteText(last), "A", " role removed.") = 1
    /\ RoleLineCount(NoteText(last), "C", " role applied.") = 1
    /\ RoleLineCount(NoteText(last), "B", " role removed.") = 0
    /\ RoleLineCount(NoteText(last), "B", " role applied.") = 0

----------------------------------------------------------------------------
(* The length of plain text *)

\* C9: every plain-text notification handed to channel.send is at most 2000
\* characters long, whatever the input.
C9_TextWithinLimit ==
    last # Idle =>
        \A i \in 1..Len(last.sent) :
            last.sent[i].mode = "text" => StrLen(last.sent[i].text) <= TextLimit

\* the listeners that shorten their plain text, on a message they hold
Shortened(r) ==
    /\ r.handler \in {"on_command", "on_message_edit", "on_raw_message_delete"}
    /\ "content" \in DOMAIN r.before
    /\ Len(r.sent) = 1
    /\ r.sent[1].mode = "text"

\* timestamp, emoji, author and action of the three texts; the channel too
\* where it comes before the content
LeadingContext(r) ==
    IF r.handler = "on_command"
    THEN Clock \o Lit(" ", 1) \o Emoji \o Lit(" **", 3) \o UserStr(AuthorId) \o Lit("** (", 4)
         \o BQ \o Lit("id:" \o AuthorId, 18) \o BQ \o Lit(") used ", 7)
    ELSE IF r.handler = "on_message_edit"
    THEN Clock \o Lit(" ", 1) \o Emoji \o Lit(" **", 3) \o UserStr(AuthorId) \o Lit("** (", 4)
         \o BQ \o Lit("id:" \o AuthorId, 18) \o BQ \o Lit(") edited a message in ", 22)
         \o Mention(r.before.channel)
    ELSE DeleteInfo(r.before, r.perp)

\* the mention of the channel of the message stands whole in the text
ChannelWhole(r) ==
    \E i \in 1..Len(r.sent[1].text) : <<r.sent[1].text[i]>> = Mention(r.before.channel)

\* the text sent is the start of the text as it was put together
PrefixPreserving(r) ==
    /\ StartsWith(r.rendered, r.sent[1].text)
    /\ StartsWith(r.sent[1].text, LeadingContext(r))

\* C10: where on_command, on_message_edit and _cached_message_delete shorten
\* their plain text, the text sent is the start of the untruncated text and
\* keeps timestamp, emoji, author and action whole; on_message_edit and
\* _cached_message_delete keep the channel whole too, on_command names the
\* channel after the command and keeps it only when nothing had to be cut.
C10_PrefixPreservingCut ==
    (last # Idle /\ Shortened(last))
    => /\ PrefixPreserving(last)
       /\ last.handler # "on_command" => ChannelWhole(last)
       /\ last.handler = "on_command"
            => (ChannelWhole(last) <=> StrLen(last.rendered) <= TextLimit)

\* an edit of a long message to the longest: the text was cut to 2000
\* characters and still starts as the whole text does, channel included
C10_Witness ==
    /\ last # Idle
    /\ Shortened(last)
    /\ last.handler = "on_message_edit"
    /\ StrLen(last.rendered) > TextLimit
    /\ StrLen(last.sent[1].text) = TextLimit
    /\ PrefixPreserving(last)
    /\ ChannelWhole(last)

\* C10 as stated: the leading context kept whole is timestamp, emoji, author,
\* action and channel, in each of the three listeners.
C10_ChannelKeptWhole ==
    (last # Idle /\ Shortened(last)) => (PrefixPreserving(last) /\ ChannelWhole(last))

----------------------------------------------------------------------------
(* Embeds *)

\* the values of the fields of the embeds an outcome sent
FieldValues(r) ==
    UNION {{r.sent[i].embed.fields[j].value : j \in 1..Len(r.sent[i].embed.fields)} :
              i \in {k \in 1..Len(r.sent) : r.sent[k].mode = "embed"}}

\* C11: every field value a listener puts into an embed is at most 1024
\* characters long: attribute values, role names, permission text and reasons
\* are cut to 1024 before embed.add_field.
C11_FieldWithinLimit ==
    last # Idle => \A v \in FieldValues(last) : StrLen(v) <= FieldLimit

\* s with neighbouring runs of the same name joined and empty runs left out
RECURSIVE Norm(_)
Norm(s) ==
    IF s = <<>> THEN <<>>
    ELSE IF Head(s).n = 0 THEN Norm(Tail(s))
    ELSE LET rest == Norm(Tail(s))
         IN IF rest # <<>> /\ rest[1].t = Head(s).t
            THEN <<[t |-> Head(s).t, n |-> Head(s).n + rest[1].n, m |-> Head(s).m + rest[1].m]>>
                 \o Tail(rest)
            ELSE <<Head(s)>> \o rest

\* the values of the fields of an embed that carry a name, in order
Named(embed, name) ==
    LET fs == SelectSeq(embed.fields, LAMBDA f : f.name = name)
    IN [i \in 1..Len(fs) |-> fs[i].value]

\* the pieces hold the whole text and none is longer than limit
Paginated(pieces, text, limit) ==
    /\ \A i \in 1..Len(pieces) : StrLen(pieces[i]) <= limit
    /\ Norm(Flatten(pieces)) = Norm(text)

\* C12: long text is spread over fields, not cut: in embed mode the description
\* of _cached_message_delete and its "Message Continued" fields hold, in order,
\* the whole "author: content" text in pieces of at most 1000 characters; and
\* the "Permissions" fields of a channel or role update hold every line of the
\* permission text in pieces of at most 1024 characters.
C12_Paginated ==
    (last # Idle /\ Len(last.sent) = 1 /\ last.sent[1].mode = "embed")
    => LET embed == last.sent[1].embed
       IN /\ (last.handler = "on_raw_message_delete" /\ "content" \in DOMAIN last.before)
             => Paginated(<<embed.description>> \o Named(embed, "Message Continued"),
                          escape(UserMention(AuthorId) \o Lit(": ", 2) \o last.before.content),
                          PageLength)
          /\ (last.handler = "on_guild_channel_update" /\ last.chtype \in {"text", "voice"})
             => Paginated(Named(embed, "Permissions"),
                          get_permission_change(last.before.overwrites, last.after.overwrites,
                                                ChannelId, TRUE).p_msg,
                          FieldLimit)
          /\ last.handler = "on_guild_role_update"
             => Paginated(Named(embed, "Permissions"),
                          get_role_permission_change(last.before, last.after, 1), FieldLimit)

\* ---- Embed colour ----

SentEmbeds(r) == {r.sent[i].embed : i \in {k \in 1..Len(r.sent) : r.sent[k].mode = "embed"}}

\* C13: for every event kind, the colour of a sent embed is the guild's override
\* for that kind when one is set and the kind's default colour otherwise.
C13_EmbedColour ==
    last # Idle =>
        \A e \in SentEmbeds(last) :
            e.colour = IF settings.events[last.event].colour # None
                       THEN settings.events[last.event].colour
                       ELSE DefaultColour(last.event)

\* the same for every listener but on_guild_role_update
C13_EmbedColourButRole ==
    (last # Idle /\ last.handler # "on_guild_role_update") =>
        \A e \in SentEmbeds(last) :
            e.colour = IF settings.events[last.event].colour # None
                       THEN settings.events[last.event].colour
                       ELSE DefaultColour(last.event)

\* ---- Determinism ----

\* what the listener that produced r sends when its clock reads t; the event,
\* the settings and the audit log are those of r
Again(r, t) ==
    CASE r.handler = "on_guild_channel_update" ->
            on_guild_channel_update(r.chtype, r.before, r.after, t).sent
      [] r.handler = "on_guild_role_update" -> on_guild_role_update(r.before, r.after, t).sent
      [] r.handler = "on_guild_update" -> on_guild_update(r.before, r.after, t).sent
      [] r.handler = "on_voice_state_update" -> on_voice_state_update(r.before, r.after, t).sent
      [] OTHER -> r.sent

\* C14: handling the same event again with the same snapshots, settings and
\* audit log sends the same plain text and the same embed payload, whatever
\* the clock reads at the time of the handling.
C14_Deterministic ==
    last # Idle => \A t \in Times : Again(last, t) = last.sent

\* the plain text alone is the same at every handling
C14_TextDeterministic ==
    last # Idle =>
        \A t \in Times :
            LET again == Again(last, t)
            IN /\ Len(again) = Len(last.sent)
               /\ \A i \in 1..Len(again) :
                     /\ again[i].mode = last.sent[i].mode
                     /\ again[i].text = last.sent[i].text

\* ---- Plain text against embed ----

\* the users and the reasons the audit log holds
AuditUsers == UNION {{auditLog[x][i].user : i \in 1..Len(auditLog[x])} : x \in Actions}
AuditReasons ==
    UNION {{auditLog[x][i].reason : i \in 1..Len(auditLog[x])} : x \in Actions} \ {NoReason}

\* the text names the user u, as str(u), u.name or u.mention
NamesUser(text, u) ==
    \E i \in 1..Len(text) : text[i].t \in {"str:" \o u, "name:" \o u, "mention:" \o u}

HoldsReason(text, r) == \E i \in 1..Len(text) : text[i].t = "reason:" \o r

\* all the text of an embed
EmbedText(e) == e.description \o Flatten([i \in 1..Len(e.fields) |-> e.fields[i].value])

\* the listeners that build msg and embed side by side from one event: the
\* message text as built and the embed as sent
SideBySide(r) ==
    /\ r.handler \in UpdateHandlers
    /\ r.sent # <<>>
    /\ r.sent[1].mode = "embed"

\* C15: the plain text and the embed a listener builds for one event carry the
\* same content: the correlated actor and the correlated reason are in the
\* text if and only if they are in the embed.
C15_SameContent ==
    (last # Idle /\ SideBySide(last)) =>
        LET e == last.sent[1].embed
        IN /\ \A u \in AuditUsers :
                 NamesUser(last.rendered, u) <=> (e.author = u \/ NamesUser(EmbedText(e), u))
           /\ \A r \in AuditReasons :
                 HoldsReason(last.rendered, r) <=> HoldsReason(EmbedText(e), r)

\* the same for every listener but on_voice_state_update
C15_SameContentButVoice ==
    (last # Idle /\ SideBySide(last) /\ last.handler # "on_voice_state_update") =>
        LET e == last.sent[1].embed
        IN /\ \A u \in AuditUsers :
                 NamesUser(last.rendered, u) <=> (e.author = u \/ NamesUser(EmbedText(e), u))
           /\ \A r \in AuditReasons :
                 HoldsReason(last.rendered, r) <=> HoldsReason(EmbedText(e), r)

\* ---- No destination ----

\* no channel of the event's own and no modlog channel
Unresolved(event) ==
    /\ \/ settings.events[event].channel = None
       \/ settings.events[event].channel = GoneChannel
    /\ ~settings.modlog

\* C16: when no destination can be resolved for the event, or the bot may not
\* send messages in the resolved channel, the listener ends without sending,
\* without a lookup and without raising.
C16_NoDestinationSilent ==
    (last # Idle /\ (Unresolved(last.event) \/ ~me.send_messages)) =>
        /\ last.sent = <<>>
        /\ last.queries = <<>>
        /\ ~last.raised

\* a watched change reaches a listener whose channel the bot may not write to
C16_Witness ==
    /\ last # Idle
    /\ last.handler = "on_guild_channel_update"
    /\ WatchedDiff(last) # {}
    /\ Destination(last.event) # None
    /\ ~me.send_messages
    /\ settings.events[last.event].enabled

----------------------------------------------------------------------------
(* Invites: invite_links_loop, save_invite_links, get_invite_link,
   on_member_join and on_invite_create as coroutines that interleave at
   their awaits *)

\* the most uses an invite of the model sees
UsesCap == 2

\* the coroutines: one turn of invite_links_loop, one on_member_join, one
\* on_invite_create
TaskIds == {"loop", "join", "create"}

\* a coroutine that has not started: fetched is the answer of guild.invites(),
\* invites the table it wrote, link the codes possible_link was made from,
\* wrote the rank of its write among all writes, config0 and delivered0 the
\* store and the channel as the coroutine found them
Fresh ==
    [pc |-> "idle", fetched |-> NoTable, invites |-> NoTable, link |-> {}, wrote |-> 0,
     config0 |-> NoTable, delivered0 |-> <<>>]

Started(t, pc) ==
    [tasks[t] EXCEPT !.pc = pc, !.config0 = config, !.delivered0 = delivered]

Empty(table) == \A c \in Codes : ~table[c].present

\* invites[invite.code] = {...} for every invite of the answer
BuiltTable(fetched) == fetched

\* config.guild(guild).invite_links.set(invites): the value replaces the old one
ConfigSetMerged(old, new) == [c \in Codes |-> IF new[c].present THEN new[c] ELSE old[c]]

ConfigSet(old, new) == new

\* the rank of the next write
NextWrite ==
    1 + (CHOOSE n \in {tasks[t].wrote : t \in TaskIds} :
           \A t \in TaskIds : tasks[t].wrote <= n)

\* a member joins through the invite c: one more use, and an invite that has
\* reached max_uses is gone
InviteUsed(c) ==
    /\ guildInvites[c].present
    /\ guildInvites[c].uses < UsesCap
    /\ guildInvites' =
         [guildInvites EXCEPT
            ![c] = IF @.max_uses > 0 /\ @.uses + 1 >= @.max_uses THEN Absent
                   ELSE [@ EXCEPT !.uses = @ + 1]]
    /\ UNCHANGED <<settings, me, auditLog, last, config, invite_links, delivered, tasks,
                   ban_cache, others>>

\* invite_links_loop: save_invite_links for a guild whose user_join is enabled
LoopStart ==
    /\ tasks["loop"].pc = "idle"
    /\ tasks' = [tasks EXCEPT
                   !["loop"] = Started("loop",
                                 IF settings.events["user_join"].enabled /\ me.manage_guild
                                 THEN "save:invites" ELSE "done")]
    /\ UNCHANGED <<settings, me, auditLog, last, guildInvites, config, invite_links,
                   delivered, ban_cache, others>>

\* save_invite_links up to its write: await guild.invites(), then the loop
\* that builds invites
SaveFetch(t) ==
    /\ tasks[t].pc = "save:invites"
    /\ tasks' = [tasks EXCEPT ![t].pc = "save:set",
                              ![t].invites = BuiltTable(guildInvites)]
    /\ UNCHANGED <<settings, me, auditLog, last, guildInvites, config, invite_links,
                   delivered, ban_cache, others>>

\* await self.config.guild(guild).invite_links.set(invites)
SaveSet(t) ==
    /\ tasks[t].pc = "save:set"
    /\ config' = ConfigSet(config, tasks[t].invites)
    /\ tasks' = [tasks EXCEPT ![t].pc = IF t = "join" THEN "send" ELSE "done",
                              ![t].wrote = NextWrite]
    /\ UNCHANGED <<settings, me, auditLog, last, guildInvites, invite_links, delivered,
                   ban_cache, others>>

\* on_member_join of a member that is no bot, up to possible_link =
\* await self.get_invite_link(member), and get_invite_link up to its first await
JoinStart ==
    /\ tasks["join"].pc = "idle"
    /\ tasks' = [tasks EXCEPT
                   !["join"] = Started("join",
                                 IF ~Gate("user_join") THEN "done"
                                 ELSE IF ~Empty(invite_links) /\ me.manage_guild
                                 THEN "link:invites" ELSE "send")]
    /\ UNCHANGED <<settings, me, auditLog, last, guildInvites, config, invite_links,
                   delivered, ban_cache, others>>

\* the codes of the answer that were used more often than the table says
UsedMore(fetched, invites) ==
    {c \in Codes : fetched[c].present /\ invites[c].present /\ fetched[c].uses > invites[c].uses}

\* guild_invites = await guild.invites() and the loop over it
JoinFetch ==
    /\ tasks["join"].pc = "link:invites"
    /\ LET link == UsedMore(guildInvites, invite_links)
       IN tasks' = [tasks EXCEPT !["join"].fetched = guildInvites,
                                 !["join"].link = link,
                                 !["join"].pc = IF link = {} THEN "link:probe"
                                                ELSE "save:invites"]
    /\ UNCHANGED <<settings, me, auditLog, last, guildInvites, config, invite_links,
                   delivered, ban_cache, others>>

\* the codes of the table that fetch_invite no longer finds and that were one
\* use short of max_uses
LastUse(invites) ==
    {c \in Codes : /\ invites[c].present
                   /\ ~guildInvites[c].present
                   /\ invites[c].max_uses - invites[c].uses = 1}

\* for code, data in invites.items(): await self.bot.fetch_invite(code)
JoinProbe ==
    /\ tasks["join"].pc = "link:probe"
    /\ tasks' = [tasks EXCEPT !["join"].link = LastUse(invite_links),
                              !["join"].pc = "save:invites"]
    /\ UNCHANGED <<settings, me, auditLog, last, guildInvites, config, invite_links,
                   delivered, ban_cache, others>>

\* await channel.send(...) of on_member_join
JoinSend ==
    /\ tasks["join"].pc = "send"
    /\ delivered' = Append(delivered, [event |-> "user_join", link |-> tasks["join"].link])
    /\ tasks' = [tasks EXCEPT !["join"].pc = "done"]
    /\ UNCHANGED <<settings, me, auditLog, last, guildInvites, config, invite_links,
                   ban_cache, others>>

\* the invite c is created and on_invite_create runs up to its first write:
\* the code goes into the table in memory, and the table is on its way to the
\* store
CreateStart(c) ==
    /\ tasks["create"].pc = "idle"
    /\ ~guildInvites[c].present
    /\ \E max_uses \in {0} :
         /\ guildInvites' = [guildInvites EXCEPT ![c] = Invite(0, max_uses)]
         /\ IF ~settings.present
            THEN /\ tasks' = [tasks EXCEPT !["create"] = Started("create", "done")]
                 /\ UNCHANGED invite_links
            ELSE IF ~invite_links[c].present
            THEN /\ invite_links' = [invite_links EXCEPT ![c] = Invite(0, max_uses)]
                 /\ tasks' = [tasks EXCEPT !["create"] = Started("create", "create:set")]
            ELSE /\ tasks' = [tasks EXCEPT !["create"] = Started("create", "create:gate")]
                 /\ UNCHANGED invite_links
    /\ UNCHANGED <<settings, me, auditLog, last, config, delivered, ban_cache, others>>

\* await self.config.guild(guild).invite_links.set(self.settings[guild.id]["invite_links"])
CreateSet ==
    /\ tasks["create"].pc = "create:set"
    /\ config' = ConfigSet(config, invite_links)
    /\ tasks' = [tasks EXCEPT !["create"].pc = "create:gate",
                              !["create"].invites = invite_links,
                              !["create"].wrote = NextWrite]
    /\ UNCHANGED <<settings, me, auditLog, last, guildInvites, invite_links, delivered,
                   ban_cache, others>>

\* the enabled test and modlog_channel of on_invite_create
CreateGate ==
    /\ tasks["create"].pc = "create:gate"
    /\ tasks' = [tasks EXCEPT !["create"].pc = IF Gate("invite_created") THEN "send"
                                               ELSE "done"]
    /\ UNCHANGED <<settings, me, auditLog, last, guildInvites, config, invite_links,
                   delivered, ban_cache, others>>

\* await channel.send(...) of on_invite_create; an invite always has a code,
\* so worth_updating holds
CreateSend ==
    /\ tasks["create"].pc = "send"
    /\ delivered' = Append(delivered, [event |-> "invite_created", link |-> {}])
    /\ tasks' = [tasks EXCEPT !["create"].pc = "done"]
    /\ UNCHANGED <<settings, me, auditLog, last, guildInvites, config, invite_links,
                   ban_cache, others>>

\* the event loop cancels the coroutine t at the await it is suspended at
Cancel(t) ==
    /\ tasks[t].pc \notin {"idle", "done", "cancelled"}
    /\ tasks' = [tasks EXCEPT ![t].pc = "cancelled"]
    /\ UNCHANGED <<settings, me, auditLog, last, guildInvites, config, invite_links,
                   delivered, ban_cache, others>>

\* the invites of the guild when the coroutines start: one that its next use
\* ends; the table loaded from the store is empty, or those invites a use ago
GuildChoices ==
    {[c \in Codes |-> IF c = "a" THEN Invite(1, 2) ELSE Absent]}
Before(table) ==
    [c \in Codes |-> IF table[c].present THEN [table[c] EXCEPT !.uses = @ - 1] ELSE Absent]

\* everything enabled, everything disabled, and the bot without manage_guild
InviteSettings ==
    {[options |-> DefaultOptions, me |-> Healthy],
     [options |-> [DefaultOptions EXCEPT !.enabled = FALSE], me |-> Healthy],
     [options |-> DefaultOptions, me |-> [Healthy EXCEPT !.manage_guild = FALSE]]}

InitInvites ==
    /\ \E s \in InviteSettings :
         /\ settings = AllEvents(s.options)
         /\ me = s.me
    /\ auditLog = [a \in Actions |-> <<>>]
    /\ last = Idle
    /\ guildInvites \in GuildChoices
    /\ config \in {NoTable, Before(guildInvites)}
    /\ invite_links = config
    /\ delivered = <<>>
    /\ tasks = [t \in TaskIds |-> Fresh]
    /\ ban_cache = {}
    /\ others = NoOthers

NextInvites ==
    \/ \E c \in Codes : InviteUsed(c)
    \/ LoopStart
    \/ \E t \in {"loop", "join"} : SaveFetch(t)
    \/ \E t \in {"loop", "join"} : SaveSet(t)
    \/ JoinStart
    \/ JoinFetch
    \/ JoinProbe
    \/ JoinSend
    \/ \E c \in Codes : CreateStart(c)
    \/ CreateSet
    \/ CreateGate
    \/ CreateSend
    \/ \E t \in TaskIds : Cancel(t)

SpecInvites == InitInvites /\ [][NextInvites]_vars

\* ---- Cancellation ----

\* the coroutine t was cancelled and no other coroutine has started
CancelledAlone(t) ==
    /\ tasks[t].pc = "cancelled"
    /\ \A u \in TaskIds \ {t} : tasks[u].pc = "idle"

\* C17: a handler that is cancelled before its send leaves the modlog channel
\* and the configuration store, the persisted invite table included, as they
\* were when the event arrived.
C17_CancelLeavesNoTrace ==
    \A t \in DOMAIN tasks :
        CancelledAlone(t) =>
            /\ delivered = tasks[t].delivered0
            /\ config = tasks[t].config0

\* the channel at least is as it was
C17_CancelSendsNothing ==
    \A t \in DOMAIN tasks : CancelledAlone(t) => delivered = tasks[t].delivered0

\* ---- Concurrent saves ----

\* the coroutines that have written the store, and the one that wrote last
Writers == {t \in TaskIds : tasks[t].wrote > 0}
LastWriter == CHOOSE t \in Writers : \A u \in Writers : tasks[u].wrote <= tasks[t].wrote

\* C18: however the save_invite_links calls of the loop and of on_member_join
\* interleave, the persisted invite table is the complete table of the call
\* that wrote last, never a mixture of the tables of several calls.
C18_LastWriterWins ==
    Writers # {} => config = tasks[LastWriter].invites

\* the loop and on_member_join have both saved, tables that differ, and both
\* have ended
C18_Witness ==
    /\ tasks["loop"].pc = "done"
    /\ tasks["join"].pc = "done"
    /\ tasks["loop"].wrote > 0
    /\ tasks["join"].wrote > tasks["loop"].wrote
    /\ tasks["loop"].invites # tasks["join"].invites
    /\ tasks["create"].pc = "idle"

----------------------------------------------------------------------------
(* Bans and departures: on_member_ban, on_member_remove *)

Members == Ids

\* len(guild.members)
Users == <<P("users", 3)>>

\* on_member_ban that starts the list of the guild anew at every ban
on_member_ban_anew(cache, member) == {member}

\* on_member_ban: self._ban_cache[guild.id] gets the member, for good
on_member_ban(cache, member) == cache \cup {member}

\* on_member_remove after its sleep, under the ban cache it finds
on_member_remove(member, cache, time) ==
    IF member \in cache \/ ~Gate("user_left")
    THEN Gated("on_member_remove", "user_left", member, member)
    ELSE
    LET embed_links == EmbedLinks("user_left")
        got == get_audit_log_reason(member, "kick")
        head == Clock \o Lit(" ", 1) \o Emoji \o Lit(" **", 3) \o UserStr(member)
                \o Lit("** (", 4) \o BQ \o Lit("id:" \o member, 18) \o BQ
        msg == IF got.perp = None
               THEN head \o Lit(") left the guild. Total members: ", 33) \o Users
               ELSE head \o Lit(") was kicked by ", 16) \o UserStr(got.perp)
                    \o Lit(". Total members: **", 19) \o Users \o Lit("**", 2)
        embed == [description |-> Mention(member) \o NL,
                  author |-> member,
                  colour |-> get_event_colour("user_left"),
                  timestamp |-> time,
                  fields |-> <<Field("Total Users", Users)>>
                             \o (IF got.perp # None
                                 THEN <<Field("Kicked by Moderator", UserMention(got.perp))>>
                                 ELSE <<>>)
                             \o (IF got.reason # None
                                 THEN <<Field("Reason", ReasonText(got.reason))>> ELSE <<>>)
                             \o <<Field("ID", Lit("fence:asciidoc", 11) \o NL
                                              \o Lit("User :: ", 8) \o Lit("id:" \o member, 18)
                                              \o Lit("fence", 3))>>]
    IN Outcome("on_member_remove", "user_left", member, member, {}, TRUE, got.perp,
               got.reason, got, msg, IF embed_links THEN SendEmbed(embed) ELSE SendText(msg))

OnMemberBan ==
    /\ last = Idle
    /\ \E member \in Members : ban_cache' = on_member_ban(ban_cache, member)
    /\ UNCHANGED <<settings, me, auditLog, last, guildInvites, config, invite_links,
                   delivered, tasks, others>>

OnMemberRemove ==
    /\ last = Idle
    /\ \E member \in Members, time \in Times :
         last' = on_member_remove(member, ban_cache, time)
    /\ UNCHANGED <<settings, me, auditLog>>
    /\ UNCHANGED held

NextMembers == OnMemberBan \/ OnMemberRemove \/ Return

SpecMembers == Init /\ [][NextMembers]_vars

\* ---- State across events ----

\* C19: no state but the settings table and the invite table is written while
\* one event is handled and read while another is: what on_member_remove does
\* for a member is what it does when no event was handled before it.
C19_NothingCarriedOver ==
    (last # Idle /\ last.handler = "on_member_remove") =>
        \E t \in Times : last.sent = on_member_remove(last.before, {}, t).sent

\* ---- Lookup before send ----

\* C20: whenever a listener of an update finds a change worth a notification
\* and the bot can view the audit log, it asks the audit log for the actor and
\* the reason before it sends, whatever the kind of the entity.
C20_LookupBeforeSend ==
    (last # Idle /\ last.handler \in UpdateHandlers /\ last.worth /\ me.view_audit_log) =>
        last.queries # <<>>

\* the same for the listeners that always ask: text channels, roles, members
C20_LookupBeforeSendWhereAsked ==
    (/\ last # Idle
     /\ \/ last.handler \in {"on_guild_role_update", "on_member_update"}
        \/ last.handler = "on_guild_channel_update" /\ last.chtype = "text"
     /\ last.worth
     /\ me.view_audit_log) =>
        last.queries # <<>>

----------------------------------------------------------------------------
(* Departures as coroutines: on_member_remove sleeps five seconds before it
   looks at the ban cache, and the event loop runs other listeners while it
   sleeps *)

\* two on_member_remove coroutines
LeaveIds == {"r1", "r2"}

\* a coroutine that has not started: banned is what the test of the ban cache
\* found when the sleep was over, out the outcome of the rest of the listener
Unstarted ==
    [pc |-> "idle", member |-> None, banned |-> FALSE,
     out |-> Gated("on_member_remove", "user_left", None, None)]

\* the event arrives: guild = member.guild, then await asyncio.sleep(5)
RemoveStart(t) ==
    /\ tasks[t].pc = "idle"
    /\ \E member \in Members : tasks' = [tasks EXCEPT ![t].pc = "sleep", ![t].member = member]
    /\ UNCHANGED <<settings, me, auditLog, last, guildInvites, config, invite_links,
                   delivered, ban_cache, others>>

\* the sleep is over: the test of the ban cache, the gate, the lookup and the
\* message, up to await channel.send
RemoveWake(t) ==
    /\ tasks[t].pc = "sleep"
    /\ \E time \in Times :
         LET out == on_member_remove(tasks[t].member, ban_cache, time)
         IN tasks' = [tasks EXCEPT ![t].pc = IF out.sent = <<>> THEN "done" ELSE "send",
                                   ![t].banned = tasks[t].member \in ban_cache,
                                   ![t].out = out]
    /\ UNCHANGED <<settings, me, auditLog, last, guildInvites, config, invite_links,
                   delivered, ban_cache, others>>

\* await channel.send(...)
RemoveSend(t) ==
    /\ tasks[t].pc = "send"
    /\ delivered' = Append(delivered, [task |-> t, note |-> tasks[t].out.sent[1]])
    /\ tasks' = [tasks EXCEPT ![t].pc = "done"]
    /\ UNCHANGED <<settings, me, auditLog, last, guildInvites, config, invite_links,
                   ban_cache, others>>

\* on_member_ban has no await: it runs whenever the event loop is free
Ban ==
    /\ \E member \in Members :
         /\ member \notin ban_cache
         /\ ban_cache' = on_member_ban(ban_cache, member)
    /\ UNCHANGED <<settings, me, auditLog, last, guildInvites, config, invite_links,
                   delivered, tasks, others>>

\* user_left enabled or not, embeds or text, with every permission and a kick
\* or nothing in the audit log
InitLeaves ==
    /\ \E o \in {DefaultOptions, [DefaultOptions EXCEPT !.enabled = FALSE],
                 [DefaultOptions EXCEPT !.embed = FALSE]} : settings = AllEvents(o)
    /\ me \in MeChoices
    /\ \E es \in {<<>>, <<Entry(TargetId, "u1", "because", NoAfter)>>} :
         auditLog = [a \in Actions |-> es]
    /\ last = Idle
    /\ guildInvites = NoTable
    /\ config = NoTable
    /\ invite_links = NoTable
    /\ delivered = <<>>
    /\ tasks = [t \in LeaveIds |-> Unstarted]
    /\ ban_cache = {}
    /\ others = NoOthers

NextLeaves ==
    \/ \E t \in LeaveIds : RemoveStart(t)
    \/ \E t \in LeaveIds : RemoveWake(t)
    \/ \E t \in LeaveIds : RemoveSend(t)
    \/ Ban

SpecLeaves == InitLeaves /\ [][NextLeaves]_vars

\* ---- One event at a time ----

\* the coroutine has started and has neither sent nor ended
InFlight(t) == tasks[t].pc \in {"sleep", "send"}

\* C21: events of the same kind do not interleave: while one on_member_remove
\* is in flight, suspended at an await or not, no other on_member_remove is.
C21_OneAtATime ==
    \A t, u \in LeaveIds : (InFlight(t) /\ InFlight(u)) => t = u

\* ---- Ban suppression ----

\* the notifications the coroutine t has sent
SentBy(t) == SelectSeq(delivered, LAMBDA d : d.task = t)

\* a ban handled before the sleep of an on_member_remove for the member is
\* over: that on_member_remove sends nothing
C24_BanSuppresses ==
    \A t \in LeaveIds :
        (tasks[t].pc \in {"send", "done"} /\ tasks[t].banned) =>
            (tasks[t].out.sent = <<>> /\ SentBy(t) = <<>>)

\* C24: an on_member_remove whose member was banned before its sleep was over
\* sends no notification; one whose member was not, with user_left enabled
\* and a usable channel, sends exactly one.
C24_BanSuppression ==
    \A t \in LeaveIds :
        /\ (tasks[t].pc \in {"send", "done"} /\ tasks[t].banned) =>
              (tasks[t].out.sent = <<>> /\ SentBy(t) = <<>>)
        /\ (tasks[t].pc = "done" /\ ~tasks[t].banned /\ Gate("user_left")) =>
              Len(SentBy(t)) = 1

\* the same where the audit log answers
C24_BanSuppressionWhenAnswered ==
    ~(me.view_audit_log /\ me.api_error) =>
        \A t \in LeaveIds :
            /\ (tasks[t].pc \in {"send", "done"} /\ tasks[t].banned) =>
                  (tasks[t].out.sent = <<>> /\ SentBy(t) = <<>>)
            /\ (tasks[t].pc = "done" /\ ~tasks[t].banned /\ Gate("user_left")) =>
                  Len(SentBy(t)) = 1

\* ---- The ban cache ----

NoteWords(n) == IF n.mode = "embed" THEN EmbedText(n.embed) ELSE n.text

\* C22: for the notification of each cached message of a bulk delete no
\* audit-log query is made and no moderator is named, whatever the audit log
\* holds.
C22_PartsNotCorrelated ==
    (last # Idle /\ last.handler = "on_raw_bulk_message_delete") =>
        \A i \in 1..Len(last.parts) :
            LET out == last.parts[i].out
            IN /\ out.queries = <<>>
               /\ out.perp = None
               /\ \A k \in 1..Len(out.sent), u \in AuditUsers :
                     ~NamesUser(NoteWords(out.sent[k]), u)

\* a cached message of a bulk delete got its notification while the bot could
\* read an audit log that holds a delete of a message of that author in that
\* channel
C22_Witness ==
    /\ last # Idle
    /\ last.handler = "on_raw_bulk_message_delete"
    /\ me.view_audit_log
    /\ ~me.api_error
    /\ \E i \in 1..Len(last.parts) :
         /\ last.parts[i].out.sent # <<>>
         /\ DeleteMatch(audit_logs(2, "message_delete"), last.before[i]) # 0

\* ---- The settings gate ----

\* the guild is not in the settings table, or the kind of the event is not
\* enabled; for a bulk delete, enabled or bulk_enabled is off
SwitchedOff(r) ==
    \/ ~settings.present
    \/ ~settings.events[r.event].enabled
    \/ /\ r.handler = "on_raw_bulk_message_delete"
       /\ ~settings.events[r.event].bulk_enabled

\* C26: a listener for a guild that is not in the settings table, or for a
\* kind of event that is not enabled, sends nothing.
C26_SettingsGate ==
    (last # Idle /\ SwitchedOff(last)) => last.sent = <<>>

\* a bulk delete with cached messages arrived where message_delete is enabled,
\* bulk_enabled is off and the channel is usable
C26_Witness ==
    /\ last # Idle
    /\ last.handler = "on_raw_bulk_message_delete"
    /\ settings.present
    /\ settings.events["message_delete"].enabled
    /\ ~settings.events["message_delete"].bulk_enabled
    /\ Destination("message_delete") # None
    /\ me.send_messages
    /\ last.before # <<>>

\* ---- Failures inside a bulk delete ----

\* the summary of a bulk delete, as embed or as text
IsSummary(n) ==
    IF n.mode = "embed" THEN Named(n.embed, "# of Messages Deleted") # <<>>
    ELSE \E i \in 1..Len(n.text) : n.text[i].t = "** messages were deleted in "

\* a bulk delete with all three options of message_delete on
BulkIndividual(r) ==
    /\ r.handler = "on_raw_bulk_message_delete"
    /\ settings.present
    /\ settings.events["message_delete"].enabled
    /\ settings.events["message_delete"].bulk_enabled
    /\ settings.events["message_delete"].bulk_individual

\* one summary first, then every cached message in order, a rejected one
\* holding up neither the listener nor the messages after it
Contained(r) ==
    /\ ~r.raised
    /\ r.sent # <<>>
    /\ IsSummary(r.sent[1])
    /\ \A k \in 2..Len(r.sent) : ~IsSummary(r.sent[k])
    /\ Len(r.parts) = Len(r.before)
    /\ \A i \in 1..Len(r.parts) : r.parts[i].out.before = r.before[i]
    /\ Tail(r.sent) =
         Flatten([i \in 1..Len(r.parts) |->
                     IF r.parts[i].rejected THEN <<>> ELSE r.parts[i].out.sent])

LinesOf(p_msg, o, embed_links) ==
    {k \in 1..Len(p_msg) : p_msg[k] = SubjectName(o, embed_links)[1]}

\* subject o has a line that goes on with these words
Says(p_msg, o, embed_links, words) ==
    \E k \in LinesOf(p_msg, o, embed_links) : k < Len(p_msg) /\ p_msg[k + 1].t = words

\* the permissions subject o has a "Set to" line for, one place per line
SetTo(p_msg, o, embed_links) ==
    {k \in LinesOf(p_msg, o, embed_links) :
        k + 3 <= Len(p_msg) /\ p_msg[k + 3].t = " Set to "}

PerSubject(b, a, embed_links, p_msg) ==
    /\ \A o \in DOMAIN b \ DOMAIN a : Says(p_msg, o, embed_links, " Overwrites removed.")
    /\ \A o \in DOMAIN a \ DOMAIN b : Says(p_msg, o, embed_links, " Overwrites added.")
    /\ \A o \in DOMAIN a \cap DOMAIN b :
          LET differ == {p \in DOMAIN a[o] : a[o][p] # b[o][p]}
              places == SetTo(p_msg, o, embed_links)
          IN /\ {p_msg[k + 2].t : k \in places} = differ
             /\ Cardinality(places) = Cardinality(differ)
             /\ a[o] = b[o] => LinesOf(p_msg, o, embed_links) = {}
    /\ a = b => p_msg = <<>>

\* C23: the text of get_permission_change has an "Overwrites removed" line
\* for every subject only in before, an "Overwrites added" line for every
\* subject only in after, one "Set to" line for each differing permission of
\* a subject in both, no line for a subject whose overwrite is the same, and
\* is empty for the same overwrites.
C23_PerSubjectLines ==
    (last # Idle /\ last.handler = "on_guild_channel_update"
     /\ last.chtype \in {"text", "voice"})
    => LET got == get_permission_change(last.before.overwrites, last.after.overwrites,
                                        ChannelId, last.embed_links)
       IN ~got.raised
          => PerSubject(last.before.overwrites, last.after.overwrites,
                        last.embed_links, got.p_msg)

\* a role's overwrite went from allow to deny with the other permission left
\* alone, and the text went out
C23_Witness ==
    /\ last # Idle
    /\ last.handler = "on_guild_channel_update"
    /\ last.before.overwrites = ModsOnly
    /\ last.after.overwrites = ModsDenied
    /\ last.sent # <<>>

\* ---- The invite table in memory and the one saved ----

\* C29: when save_invite_links has written its table to the store, the table
\* get_invite_link reads, settings[guild.id]["invite_links"], is that table.
C29_TableInMemoryIsTheSavedOne ==
    [][\A t \in {"loop", "join"} :
          SaveSet(t) => invite_links' = tasks[t].invites]_vars

\* ---- One emoji change per event ----

\* the kinds of change a text speaks of
EmojiKinds(text) ==
    {kind \in {"removed", "added", "changed"} :
        \E k \in 1..Len(text) :
            text[k].t \in (IF kind = "removed" THEN {") Removed from the guild"}
                           ELSE IF kind = "added" THEN {" Added to the guild"}
                           ELSE {" Renamed from ", " Changed to unrestricted.",
                                 " Restricted to roles: ",
                                 " Role restriction changed from"})}

\* the emojis a text names
EmojisNamed(text) ==
    {i \in EmojiIds :
        \E k \in 1..Len(text), n \in EmojiNames : text[k] = EmojiStr(i, [name |-> n])[1]}

\* C30: one event is reported as one kind of change of one emoji, a removal
\* before an addition before a change: an event that removes an emoji and
\* adds or changes another reports the removal alone, and of several emojis
\* removed, added or changed at once one is reported.
C30_OneChangeReported ==
    (last # Idle /\ last.handler = "on_guild_emojis_update" /\ last.rendered # <<>>)
    => LET b == last.before
           a == last.after
           removed == DOMAIN b \ DOMAIN a
           added == DOMAIN a \ DOMAIN b
           changed == {i \in DOMAIN a \cap DOMAIN b : a[i] # b[i]}
           kinds == EmojiKinds(last.rendered)
           named == EmojisNamed(last.rendered)
       IN /\ Cardinality(kinds) <= 1
          /\ Cardinality(named) <= 1
          /\ removed # {} => kinds = {"removed"} /\ named \subseteq removed
          /\ (removed = {} /\ added # {}) => kinds = {"added"} /\ named \subseteq added
          /\ (removed = {} /\ added = {} /\ changed # {})
                => kinds = {"changed"} /\ named \subseteq changed

\* one emoji went and another came in the same event, and the report went out
C30_Witness ==
    /\ last # Idle
    /\ last.handler = "on_guild_emojis_update"
    /\ DOMAIN last.before \ DOMAIN last.after # {}
    /\ DOMAIN last.after \ DOMAIN last.before # {}
    /\ last.sent # <<>>

----------------------------------------------------------------------------
(* invite_links_loop, pass after pass *)

\* the guild the listeners are about, the other guilds that may be keys of
\* self.settings, and the guilds bot.get_guild finds
ThisGuild == "g0"
OtherGuilds == {"g1", "g2"}
KeyOrder == <<"g0", "g1", "g2">>
Known == {"g0", "g1"}

\* the keys of self.settings, as a set and in the order of iteration
KeySet == (IF settings.present THEN {ThisGuild} ELSE {}) \cup DOMAIN others
InKeySet(g) == g \in KeySet
Keys == SelectSeq(KeyOrder, InKeySet)

\* self.bot.get_guild(guild_id)
get_guild(guild_id) == IF guild_id \in Known THEN guild_id ELSE None

\* self.settings[guild_id]["user_join"]["enabled"]
UserJoinEnabled(guild_id) ==
    IF guild_id = ThisGuild THEN settings.events["user_join"].enabled ELSE others[guild_id]

\* where the loop is suspended and other coroutines run
Suspended == {"ready", "save:invites", "save:set", "sleep"}

\* invite_links_loop before its first pass
LoopReady == [pc |-> "ready", todo |-> <<>>, used |-> 0, guild |-> None]

\* while True: for guild_id in self.settings: the iterator is made, and it
\* remembers the size of the dict
PassStart ==
    /\ tasks["loop"].pc \in {"ready", "sleep"}
    /\ tasks' = [tasks EXCEPT !["loop"].pc = "for",
                              !["loop"].todo = Keys,
                              !["loop"].used = Cardinality(KeySet),
                              !["loop"].guild = None]
    /\ UNCHANGED <<settings, me, auditLog, last, guildInvites, config, invite_links,
                   delivered, ban_cache, others>>

\* one turn of the for loop up to the call of save_invite_links: the iterator
\* raises RuntimeError when the dict has changed size, a key that is gone
\* raises KeyError, and the end of the keys leads to asyncio.sleep(300)
PassNext ==
    /\ tasks["loop"].pc = "for"
    /\ LET todo == tasks["loop"].todo
           guild_id == Head(todo)
       IN tasks' =
            IF tasks["loop"].used # Cardinality(KeySet)
            THEN [tasks EXCEPT !["loop"].pc = "dead"]
            ELSE IF todo = <<>>
            THEN [tasks EXCEPT !["loop"].pc = "sleep"]
            ELSE IF get_guild(guild_id) = None
            THEN [tasks EXCEPT !["loop"].todo = Tail(todo)]
            ELSE IF guild_id \notin KeySet
            THEN [tasks EXCEPT !["loop"].pc = "dead"]
            ELSE IF UserJoinEnabled(guild_id)
            THEN [tasks EXCEPT !["loop"].todo = Tail(todo),
                               !["loop"].pc = "save",
                               !["loop"].guild = guild_id]
            ELSE [tasks EXCEPT !["loop"].todo = Tail(todo)]
    /\ UNCHANGED <<settings, me, auditLog, last, guildInvites, config, invite_links,
                   delivered, ban_cache, others>>

\* save_invite_links(guild) up to await guild.invites(): False at once
\* without manage_guild
PassSave ==
    /\ tasks["loop"].pc = "save"
    /\ tasks' = [tasks EXCEPT !["loop"].pc = IF me.manage_guild THEN "save:invites"
                                             ELSE "for"]
    /\ UNCHANGED <<settings, me, auditLog, last, guildInvites, config, invite_links,
                   delivered, ban_cache, others>>

\* await guild.invites() answers, or raises discord.HTTPException, which
\* neither save_invite_links nor invite_links_loop catches
PassFetch ==
    /\ tasks["loop"].pc = "save:invites"
    /\ \E raised \in BOOLEAN :
         tasks' = [tasks EXCEPT !["loop"].pc = IF raised THEN "dead" ELSE "save:set"]
    /\ UNCHANGED <<settings, me, auditLog, last, guildInvites, config, invite_links,
                   delivered, ban_cache, others>>

\* await self.config.guild(guild).invite_links.set(invites); return True
PassSet ==
    /\ tasks["loop"].pc = "save:set"
    /\ config' = IF tasks["loop"].guild = ThisGuild
                 THEN ConfigSet(config, BuiltTable(guildInvites)) ELSE config
    /\ tasks' = [tasks EXCEPT !["loop"].pc = "for"]
    /\ UNCHANGED <<settings, me, auditLog, last, guildInvites, invite_links, delivered,
                   ban_cache, others>>

\* another coroutine puts a guild into self.settings while the loop is
\* suspended
GuildAdded(g) ==
    /\ tasks["loop"].pc \in Suspended
    /\ g \notin DOMAIN others
    /\ \E enabled \in BOOLEAN :
         others' = [k \in DOMAIN others \cup {g} |-> IF k = g THEN enabled ELSE others[k]]
    /\ UNCHANGED <<settings, me, auditLog, last, guildInvites, config, invite_links,
                   delivered, tasks, ban_cache>>

\* another coroutine takes a guild out of self.settings while the loop is
\* suspended
GuildRemoved(g) ==
    /\ tasks["loop"].pc \in Suspended
    /\ g \in DOMAIN others
    /\ others' = [k \in DOMAIN others \ {g} |-> others[k]]
    /\ UNCHANGED <<settings, me, auditLog, last, guildInvites, config, invite_links,
                   delivered, tasks, ban_cache>>

InitLoop ==
    /\ \E s \in InviteSettings :
         /\ settings \in {AllEvents(s.options),
                          [AllEvents(s.options) EXCEPT !.present = FALSE]}
         /\ me = s.me
    /\ auditLog = [a \in Actions |-> <<>>]
    /\ last = Idle
    /\ guildInvites \in GuildChoices
    /\ config = NoTable
    /\ invite_links = config
    /\ delivered = <<>>
    /\ tasks = [t \in {"loop"} |-> LoopReady]
    /\ ban_cache = {}
    /\ others \in UNION {[ids -> BOOLEAN] : ids \in SUBSET OtherGuilds}

LoopStep == PassStart \/ PassNext \/ PassSave \/ PassFetch \/ PassSet

NextLoop ==
    \/ PassStart
    \/ PassNext
    \/ PassSave
    \/ PassFetch
    \/ PassSet
    \/ \E g \in OtherGuilds : GuildAdded(g)
    \/ \E g \in OtherGuilds : GuildRemoved(g)

\* the event loop resumes a coroutine whose await is over
SpecLoop == InitLoop /\ [][NextLoop]_vars /\ WF_vars(LoopStep)

\* ---- The loop keeps refreshing ----

\* C25: a guild that stays in self.settings with user_join enabled, and that
\* the bot knows, has save_invite_links called for it again and again,
\* whatever a refresh did and whatever happened to the settings table while a
\* pass was suspended.
C25_KeepsRefreshing ==
    \A g \in Known :
        <>[](g \in KeySet /\ UserJoinEnabled(g))
        => []<>(tasks["loop"].pc = "save" /\ tasks["loop"].guild = g)


====
